---- MODULE Spec2Model ----
(***************************************************************************)
(* Storage gateway of reva (internal/grpc/services/gateway/                *)
(* storageprovider.go): path classification, share-reference resolution    *)
(* and request routing, as a state machine over one request at a time.     *)
(*                                                                         *)
(* Strings are sequences of one-character strings, so that the string      *)
(* functions the gateway uses (HasPrefix, Trim, SplitN, path.Clean,        *)
(* path.Join, path.Base) are computed as Go computes them.                 *)
(***************************************************************************)
EXTENDS Integers, Sequences, FiniteSets, TLC

VARIABLES env, req, res, calls, pc

vars == <<env, req, res, calls, pc>>

----------------------------------------------------------------------------
(* Bounds of the model *)

\* longest tail (in segments) appended to a root to build a request path
MaxTail == 2

\* longest tail (in segments) of the paths the classifier is applied to
MaxClassifyTail == 3

----------------------------------------------------------------------------
(* Strings *)

SLASH == "/"
DOT == <<".">>
DOTDOT == <<".", ".">>

\* strings.HasPrefix
HasPrefix(s, prefix) ==
    /\ Len(s) >= Len(prefix)
    /\ SubSeq(s, 1, Len(prefix)) = prefix

RECURSIVE TrimLeft(_)
TrimLeft(s) ==
    IF s # <<>> /\ Head(s) = SLASH THEN TrimLeft(Tail(s)) ELSE s

RECURSIVE TrimRight(_)
TrimRight(s) ==
    IF s # <<>> /\ s[Len(s)] = SLASH THEN TrimRight(SubSeq(s, 1, Len(s) - 1)) ELSE s

\* strings.Trim(p, "/")
Trim(s) == TrimRight(TrimLeft(s))

\* strings.Index(s, c): position of the first c in s, 0 when there is none
Index(s, c) ==
    IF \E i \in 1..Len(s) : s[i] = c
    THEN CHOOSE i \in 1..Len(s) : s[i] = c /\ \A j \in 1..(i - 1) : s[j] # c
    ELSE 0

\* strings.LastIndex(s, c)
LastIndex(s, c) ==
    IF \E i \in 1..Len(s) : s[i] = c
    THEN CHOOSE i \in 1..Len(s) : s[i] = c /\ \A j \in (i + 1)..Len(s) : s[j] # c
    ELSE 0

\* strings.SplitN(s, sep, n) for n > 0: at most n parts, the last one unsplit
RECURSIVE SplitN(_, _, _)
SplitN(s, sep, n) ==
    LET i == Index(s, sep) IN
    IF n <= 1 \/ i = 0 THEN <<s>>
    ELSE <<SubSeq(s, 1, i - 1)>> \o SplitN(SubSeq(s, i + 1, Len(s)), sep, n - 1)

\* strings.Split(s, sep)
Split(s, sep) == SplitN(s, sep, Len(s) + 1)

\* strings.Join(elems, "/")
RECURSIVE StrJoin(_)
StrJoin(elems) ==
    IF elems = <<>> THEN <<>>
    ELSE IF Len(elems) = 1 THEN elems[1]
    ELSE elems[1] \o <<SLASH>> \o StrJoin(Tail(elems))

\* the element loop of path.Clean: empty and "." elements are dropped, ".."
\* removes the last kept element, is dropped at the root and kept in front of
\* a relative path
RECURSIVE CleanFold(_, _, _)
CleanFold(elems, out, rooted) ==
    IF elems = <<>> THEN out
    ELSE LET e == Head(elems)
             rest == Tail(elems)
         IN  IF e = <<>> \/ e = DOT THEN CleanFold(rest, out, rooted)
             ELSE IF e = DOTDOT
                  THEN IF out # <<>> /\ out[Len(out)] # DOTDOT
                       THEN CleanFold(rest, SubSeq(out, 1, Len(out) - 1), rooted)
                       ELSE IF rooted THEN CleanFold(rest, out, rooted)
                       ELSE CleanFold(rest, Append(out, DOTDOT), rooted)
                  ELSE CleanFold(rest, Append(out, e), rooted)

\* path.Clean
Clean(p) ==
    IF p = <<>> THEN DOT
    ELSE LET rooted == p[1] = SLASH
             out == CleanFold(Split(p, SLASH), <<>>, rooted)
         IN  IF rooted THEN <<SLASH>> \o StrJoin(out)
             ELSE IF out = <<>> THEN DOT ELSE StrJoin(out)

\* path.Join: the non-empty elements joined by "/" and cleaned; "" if none
Join(elems) ==
    LET nonEmpty == SelectSeq(elems, LAMBDA e : e # <<>>) IN
    IF nonEmpty = <<>> THEN <<>> ELSE Clean(StrJoin(nonEmpty))

\* path.Base
Base(p) ==
    IF p = <<>> THEN DOT
    ELSE LET t == TrimRight(p)
             i == LastIndex(t, SLASH)
             b == SubSeq(t, i + 1, Len(t))
         IN  IF b = <<>> THEN <<SLASH>> ELSE b

----------------------------------------------------------------------------
(* Configuration and the path classifier *)

\* getHome: the hardcoded "/home"
getHome == <<"/", "h", "o", "m", "e">>

\* s.c.ShareFolder, the configured share-folder name
ShareFolder == <<"M", "y", "S", "h", "a", "r", "e", "s">>

\* getSharedFolder: path.Join(home, ShareFolder)
getSharedFolder == Join(<<getHome, ShareFolder>>)

\* inSharedFolder: the path has the shared folder as a string prefix
inSharedFolder(p) == HasPrefix(p, getSharedFolder)

\* splitPath: trim the slashes, split in at most four parts
splitPath(p) == SplitN(Trim(p), SLASH, 4)

\* split: "panic" with fewer than two parts, else whether the second part is
\* the share folder and there are exactly i parts, the last one non-empty
split(p, i) ==
    LET parts == splitPath(p) IN
    IF Len(parts) < 2 THEN "panic"
    ELSE IF parts[2] # ShareFolder THEN "false"
    ELSE IF Len(parts) = i /\ parts[i] # <<>> THEN "true"
    ELSE "false"

isSharedFolder(p) == split(p, 2)
isShareName(p) == split(p, 3)
isShareChild(p) == split(p, 4)

\* a splitShare whose shareChild is the remainder as it came
splitShareRaw(p) ==
    LET parts == splitPath(p) IN
    IF Len(parts) # 4 THEN <<"panic", <<>>, <<>>>>
    ELSE <<"ok", Join(<<<<SLASH>>, parts[1], parts[2], parts[3]>>),
                 <<SLASH>> \o parts[4]>>

\* splitShare: <<"ok", shareName, shareChild>>, or "panic" unless four parts
splitShare(p) ==
    LET parts == splitPath(p) IN
    IF Len(parts) # 4 THEN <<"panic", <<>>, <<>>>>
    ELSE <<"ok", Join(<<<<SLASH>>, parts[1], parts[2], parts[3]>>),
                 Join(<<<<SLASH>>, parts[4]>>)>>

\* The shape the handlers' chain of tests gives a path: not inSharedFolder,
\* then isSharedFolder, isShareName, isShareChild, else the handler's
\* panic("... unknown path")
classify(p) ==
    IF ~inSharedFolder(p) THEN "Plain"
    ELSE IF isSharedFolder(p) = "panic" THEN "panic"
    ELSE IF isSharedFolder(p) = "true" THEN "ShareFolder"
    ELSE IF isShareName(p) = "true" THEN "ShareName"
    ELSE IF isShareChild(p) = "true" THEN "ShareChild"
    ELSE "panic"

----------------------------------------------------------------------------
(* Inputs *)

Seg_a == <<"a">>
Seg_b == <<"b">>
Seg_eos == <<"e", "o", "s">>
Seg_t == <<"t">>

\* the segments request paths are built of: two names, "..", and the empty
\* segment (a doubled or trailing slash)
TailSegs == {Seg_a, Seg_b, DOTDOT, <<>>}

RECURSIVE SeqsUpTo(_, _)
SeqsUpTo(S, n) ==
    IF n = 0 THEN {<<>>}
    ELSE LET shorter == SeqsUpTo(S, n - 1) IN
         shorter \cup {Append(q, x) : q \in {r \in shorter : Len(r) = n - 1}, x \in S}

ShareFolder2 == ShareFolder \o <<"2">>

\* the roots: the share folder, a sibling of /home whose name only starts
\* with the share-folder name, a plain storage, and the home itself
Roots == { getSharedFolder,
           getHome \o <<SLASH>> \o ShareFolder2,
           <<SLASH>> \o Seg_eos \o <<SLASH>> \o Seg_t,
           getHome }

WithTail(root, tail) ==
    IF tail = <<>> THEN root ELSE root \o <<SLASH>> \o StrJoin(tail)

PathsOver(roots, n) == {WithTail(r, t) : r \in roots, t \in SeqsUpTo(TailSegs, n)}

\* the inputs of the classifier: absolute paths, as a reference carries
\* them, with "." segments too
ClassifyPaths ==
    {WithTail(r, t) : r \in Roots, t \in SeqsUpTo(TailSegs \cup {DOT}, MaxClassifyTail)}

----------------------------------------------------------------------------
(* The classifier applied to a path *)

NoRes == [kind |-> "none"]

Classification(p) ==
    [kind |-> "classification",
     plain |-> ~inSharedFolder(p),
     folder |-> isSharedFolder(p),
     name |-> isShareName(p),
     child |-> isShareChild(p),
     shape |-> classify(p),
     share |-> splitShare(p)]

InitClassify ==
    /\ env = [kind |-> "none"]
    /\ calls = <<>>
    /\ res = NoRes
    /\ pc = "start"
    /\ req \in {[op |-> "classify", path |-> p] : p \in ClassifyPaths}

Classify ==
    /\ pc = "start"
    /\ req.op = "classify"
    /\ res' = Classification(req.path)
    /\ pc' = "done"
    /\ UNCHANGED <<env, req, calls>>

NextClassify == Classify

SpecClassify == InitClassify /\ [][NextClassify]_vars

----------------------------------------------------------------------------
(* References, resource infos, responses and downstream calls *)

\* provider.Reference: a path, or a resource id (storage id, opaque id)
PathRef(p) == [kind |-> "path", path |-> p, sid |-> <<>>, oid |-> <<>>]
IdRef(sid, oid) == [kind |-> "id", path |-> <<>>, sid |-> sid, oid |-> oid]
NoRef == [kind |-> "none", path |-> <<>>, sid |-> <<>>, oid |-> <<>>]

\* provider.ResourceInfo
Info(type, path, target, sid, oid) ==
    [type |-> type, path |-> path, target |-> target, sid |-> sid, oid |-> oid]

NoToken == [target |-> <<>>, aud |-> ""]

\* a gateway or provider response: its status (code, message) and payload
Response(code, msg) ==
    [kind |-> "response", code |-> code, msg |-> msg, infos |-> <<>>,
     endpoint |-> <<>>, token |-> NoToken, expose |-> FALSE]

\* a handler returning (nil, err)
GoError(msg) ==
    [kind |-> "error", code |-> "", msg |-> msg, infos |-> <<>>,
     endpoint |-> <<>>, token |-> NoToken, expose |-> FALSE]

\* a handler ending in a Go panic
Panic(msg) ==
    [kind |-> "panic", code |-> "", msg |-> msg, infos |-> <<>>,
     endpoint |-> <<>>, token |-> NoToken, expose |-> FALSE]

StatResponse(info) == [Response("OK", "") EXCEPT !.infos = <<info>>]
ListResponse(infos) == [Response("OK", "") EXCEPT !.infos = infos]

\* what a request carries besides its reference: the Opaque field and the
\* ArbitraryMetadataKeys
Rest(opaque, keys) == [opaque |-> opaque, keys |-> keys]

\* a request built anew with a reference only
NoRest == Rest("", "")

\* a request built anew with the reference and the metadata keys of another
KeysOf(rest) == Rest("", rest.keys)

\* a call leaving the gateway: to the registry or to a provider address
RegistryCall(ref) ==
    [to |-> "registry", op |-> "GetStorageProvider", ref |-> ref, dst |-> NoRef,
     rest |-> NoRest]
ProviderCall(addr, op, ref, rest) ==
    [to |-> addr, op |-> op, ref |-> ref, dst |-> NoRef, rest |-> rest]

----------------------------------------------------------------------------
(* The collaborators: the storage registry and two storage providers *)

P1 == "p1"
P2 == "p2"

Sid1 == <<"s", "1">>
Sid2 == <<"s", "2">>

EosPath == <<SLASH>> \o Seg_eos
TargetPath == EosPath \o <<SLASH>> \o Seg_t
TargetDir == TargetPath \o <<SLASH, "b">>

Cs3(sid, oid) == <<"c", "s", "3", ":">> \o sid \o <<SLASH>> \o oid

\* what may sit at a share name /home/<ShareFolder>/<n>
MountOk == [type |-> "REFERENCE", target |-> Cs3(Sid2, <<"t">>)]
MountFile == [type |-> "REFERENCE", target |-> Cs3(Sid2, <<"f">>)]
MountChain == [type |-> "REFERENCE", target |-> Cs3(Sid2, <<"r">>)]
\* a reference whose target is the share name a itself
MountSelf == [type |-> "REFERENCE", target |-> Cs3(Sid1, <<"m", "a">>)]
MountMissing == [type |-> "REFERENCE", target |-> Cs3(Sid2, <<"z">>)]
MountEmpty == [type |-> "REFERENCE", target |-> <<>>]
MountScheme == [type |-> "REFERENCE", target |-> <<"f", "t", "p", ":">> \o Sid2 \o <<SLASH, "t">>]
MountLayout == [type |-> "REFERENCE", target |-> <<"c", "s", "3", ":">> \o Sid2]
MountNoOpaqueId == [type |-> "REFERENCE", target |-> <<"c", "s", "3", ":">> \o Sid2 \o <<SLASH>>]
MountNoStorageId == [type |-> "REFERENCE", target |-> <<"c", "s", "3", ":", SLASH, "t">>]
MountPlain == [type |-> "FILE", target |-> <<>>]
MountNone == [type |-> "NONE", target |-> <<>>]

MountKinds == {MountOk, MountFile, MountChain, MountSelf, MountMissing, MountEmpty,
               MountScheme, MountLayout, MountNoOpaqueId, MountNoStorageId,
               MountPlain, MountNone}

SharePath(n) == getSharedFolder \o <<SLASH, n>>

MountInfo(e, n) ==
    IF e.mounts[n].type = "NONE" THEN <<>>
    ELSE <<Info(e.mounts[n].type, SharePath(n), e.mounts[n].target, Sid1, <<"m", n>>)>>

\* the resources the home provider holds, in listing order
HomeResources(e) ==
    << Info("CONTAINER", getHome, <<>>, Sid1, <<"h">>),
       Info("CONTAINER", getSharedFolder, <<>>, Sid1, <<"m">>) >>
    \o MountInfo(e, "a") \o MountInfo(e, "b")

\* the resources the provider of the share targets holds, in listing order
TargetResources(e) ==
    << Info("CONTAINER", EosPath, <<>>, Sid2, <<"e">>),
       Info("CONTAINER", TargetPath, <<>>, Sid2, <<"t">>),
       Info("FILE", TargetPath \o <<SLASH, "a">>, <<>>, Sid2, <<"t", "a">>),
       Info("REFERENCE", TargetPath \o <<SLASH, "r">>, Cs3(Sid2, <<"f">>), Sid2, <<"t", "r">>),
       Info("REFERENCE", EosPath \o <<SLASH, "r">>, Cs3(Sid2, <<"t">>), Sid2, <<"r">>),
       Info("FILE", EosPath \o <<SLASH, "f">>, <<>>, Sid2, <<"f">>) >>
    \o (IF e.dir THEN <<Info("CONTAINER", TargetDir, <<>>, Sid2, <<"t", "b">>)>> ELSE <<>>)

Resources(e, addr) == IF addr = P1 THEN HomeResources(e) ELSE TargetResources(e)

\* the key a provider looks a reference up by: the cleaned path, or the id
RefKey(ref) ==
    IF ref.kind = "path" THEN <<"path", Clean(ref.path)>> ELSE <<"id", ref.sid, ref.oid>>

InfoKey(kind, info) ==
    IF kind = "path" THEN <<"path", info.path>> ELSE <<"id", info.sid, info.oid>>

Select(all, kind, key) == SelectSeq(all, LAMBDA i : InfoKey(kind, i) = key)

Lookup(e, addr, ref) == Select(Resources(e, addr), ref.kind, RefKey(ref))

\* registry.GetStorageProvider: the provider that owns the reference
RegistryAnswer(e, ref) ==
    IF e.registry # "OK" THEN [code |-> e.registry, addr |-> ""]
    ELSE IF ref.kind = "path"
    THEN IF HasPrefix(ref.path, getHome) THEN [code |-> "OK", addr |-> P1]
         ELSE IF HasPrefix(ref.path, EosPath) THEN [code |-> "OK", addr |-> P2]
         ELSE [code |-> "NOT_FOUND", addr |-> ""]
    ELSE IF ref.sid = Sid1 THEN [code |-> "OK", addr |-> P1]
         ELSE IF ref.sid = Sid2 THEN [code |-> "OK", addr |-> P2]
         ELSE [code |-> "NOT_FOUND", addr |-> ""]

\* a provider's answer to an RPC: err is the transport-level error
Answer(r) == [err |-> FALSE, res |-> r]
TransportError == [err |-> TRUE, res |-> GoError("transport")]
NotFound == Answer(Response("NOT_FOUND", "provider: not found"))

StatFound(found) ==
    IF found = <<>> THEN NotFound ELSE Answer(StatResponse(found[1]))

ProviderStat(e, addr, ref) ==
    IF addr \in e.down THEN TransportError ELSE StatFound(Lookup(e, addr, ref))

Children(all, dir) ==
    SelectSeq(all, LAMBDA i : i.path # dir /\ Join(<<i.path, DOTDOT>>) = dir)

ListFound(all, found) ==
    IF found = <<>> THEN NotFound
    ELSE IF found[1].type # "CONTAINER"
    THEN Answer(Response("INVALID_ARGUMENT", "provider: not a container"))
    ELSE Answer(ListResponse(Children(all, found[1].path)))

ProviderListContainer(e, addr, ref) ==
    IF addr \in e.down THEN TransportError
    ELSE ListFound(Resources(e, addr), Lookup(e, addr, ref))

ProviderCreateContainer(e, addr, ref) ==
    IF addr \in e.down THEN TransportError
    ELSE IF ref.kind # "path" THEN Answer(Response("INVALID_ARGUMENT", "provider: no path"))
    ELSE IF Lookup(e, addr, ref) # <<>>
    THEN Answer(Response("ALREADY_EXISTS", "provider: exists"))
    ELSE IF Lookup(e, addr, PathRef(Join(<<ref.path, DOTDOT>>))) = <<>>
    THEN Answer(Response("NOT_FOUND", "provider: parent not found"))
    ELSE Answer(Response("OK", ""))

ProviderDelete(e, addr, ref) ==
    IF addr \in e.down THEN TransportError
    ELSE IF Lookup(e, addr, ref) = <<>> THEN NotFound
    ELSE Answer(Response("OK", ""))

InitiateFound(found, addr, mustExist, expose, url) ==
    IF mustExist /\ found = <<>> THEN NotFound
    ELSE IF found # <<>> /\ found[1].type # "FILE"
    THEN Answer(Response("INVALID_ARGUMENT", "provider: not a file"))
    ELSE Answer([Response("OK", "") EXCEPT !.endpoint = url,
                                          !.expose = expose])

ProviderInitiate(e, addr, ref, mustExist, expose, url) ==
    IF addr \in e.down THEN TransportError
    ELSE InitiateFound(Lookup(e, addr, ref), addr, mustExist, expose, url)

\* the providers' contents after an OK CreateContainer or Delete: the share
\* names of the home provider and one directory of the target are mutable
Created(e, addr, ref) ==
    IF addr = P2 /\ Clean(ref.path) = TargetDir THEN [e EXCEPT !.dir = TRUE] ELSE e

DeletedKey(e, addr, key) ==
    IF addr = P1 /\ key = <<"path", SharePath("a")>> THEN [e EXCEPT !.mounts["a"] = MountNone]
    ELSE IF addr = P1 /\ key = <<"path", SharePath("b")>> THEN [e EXCEPT !.mounts["b"] = MountNone]
    ELSE IF addr = P2 /\ key = <<"path", TargetDir>> THEN [e EXCEPT !.dir = FALSE]
    ELSE e

Deleted(e, addr, ref) == DeletedKey(e, addr, RefKey(ref))

----------------------------------------------------------------------------
(* Gateway helpers: provider lookup, stat, getPath, reference resolution *)

\* findProvider: one registry call; NOT_FOUND becomes errtypes.NotFound, any
\* other failure another error
findProvider(e, ref) ==
    [err |-> IF RegistryAnswer(e, ref).code = "OK" THEN "none"
             ELSE IF RegistryAnswer(e, ref).code = "NOT_FOUND" THEN "notfound"
             ELSE "other",
     addr |-> RegistryAnswer(e, ref).addr,
     calls |-> <<RegistryCall(ref)>>]

\* find: findProvider, then the pooled client of the provider's address
find(e, ref) == findProvider(e, ref)

\* the response of every handler whose find failed
FindFailed(f) ==
    IF f.err = "notfound" THEN Response("NOT_FOUND", "storage provider not found")
    ELSE Response("INTERNAL", "error finding storage provider")

\* a routed call: f is the result of find, a the provider's answer; the
\* result is the (response, err) pair of the Go function, the calls made, and
\* whether the provider was called
Routed(f, a, call) ==
    IF f.err # "none"
    THEN [err |-> FALSE, res |-> FindFailed(f), calls |-> f.calls, routed |-> FALSE]
    ELSE [err |-> a.err, res |-> a.res, calls |-> f.calls \o <<call>>, routed |-> TRUE]

\* s.stat: route the stat to the provider owning the reference
stat(e, ref, rest) ==
    Routed(find(e, ref), ProviderStat(e, find(e, ref).addr, ref),
           ProviderCall(find(e, ref).addr, "Stat", ref, rest))

getPathStat(r) ==
    IF r.err \/ r.res.code # "OK" THEN [err |-> TRUE, path |-> <<>>, calls |-> r.calls]
    ELSE [err |-> FALSE, path |-> r.res.infos[1].path, calls |-> r.calls]

\* getPath: the reference's path, or the path a stat by id (with the metadata
\* keys the handler passed) reports
getPath(e, ref, keys) ==
    IF ref.path # <<>> THEN [err |-> FALSE, path |-> ref.path, calls |-> <<>>]
    ELSE IF ref.kind = "id" /\ ref.oid # <<>> THEN getPathStat(stat(e, ref, keys))
    ELSE [err |-> TRUE, path |-> <<>>, calls |-> <<>>]

Letters == {"a", "b", "c", "e", "f", "h", "m", "o", "p", "r", "s", "t", "y", "z", "M", "S",
            "H", "T", "P"}
Digits == {"0", "1", "2", "3", "9"}

\* getScheme of net/url: the index of the ':' that ends the scheme, a run of
\* letters (digits after the first); 0 without a scheme; -1 for a leading ':'
SchemeEnd(u) ==
    IF \A i \in 1..Len(u) : u[i] \in Letters \cup Digits THEN 0
    ELSE LET stop == CHOOSE i \in 1..Len(u) :
                        /\ u[i] \notin Letters \cup Digits
                        /\ \A j \in 1..(i - 1) : u[j] \in Letters \cup Digits
         IN  IF u[stop] # ":" THEN 0
             ELSE IF stop = 1 THEN -1
             ELSE IF u[1] \in Letters THEN stop ELSE 0

\* strings.ToLower, on the letters above
LowerOf(c) ==
    IF c = "M" THEN "m" ELSE IF c = "S" THEN "s" ELSE IF c = "H" THEN "h"
    ELSE IF c = "T" THEN "t" ELSE IF c = "P" THEN "p" ELSE c

ToLower(s) == [i \in 1..Len(s) |-> LowerOf(s[i])]

URLParts(u, stop) ==
    IF stop = -1 THEN [err |-> TRUE, scheme |-> <<>>, opaque |-> <<>>]
    ELSE IF stop = 0
    THEN [err |-> Index(SplitN(u, SLASH, 2)[1], ":") # 0, scheme |-> <<>>, opaque |-> <<>>]
    ELSE [err |-> FALSE, scheme |-> ToLower(SubSeq(u, 1, stop - 1)),
          opaque |-> IF stop < Len(u) /\ u[stop + 1] = SLASH THEN <<>>
                     ELSE SubSeq(u, stop + 1, Len(u))]

\* url.Parse, for targets without query or fragment: the rest after the
\* scheme is opaque unless it starts with '/'
ParseURL(u) == URLParts(u, SchemeEnd(u))

\* URL.String of a parsed URL without user, query, fragment or escapes: the
\* scheme as Parse lower-cased it, the rest as it came
URLString(u) ==
    IF SchemeEnd(u) > 0
    THEN ToLower(SubSeq(u, 1, SchemeEnd(u) - 1)) \o SubSeq(u, SchemeEnd(u), Len(u))
    ELSE u

NoInfo == Info("", <<>>, <<>>, <<>>, <<>>)
Resolved(info, cs) == [outcome |-> "ok", info |-> info, calls |-> cs]
ResolveError(cs) == [outcome |-> "err", info |-> NoInfo, calls |-> cs]
ResolvePanic == [outcome |-> "panic", info |-> NoInfo, calls |-> <<>>]

\* the end of handleCS3Ref: a target that is itself a reference is an error
\* a resolution that stats a target that is a reference once more
handleCS3RefStatAgain(e, r) ==
    IF r.err \/ r.res.code # "OK" THEN ResolveError(r.calls)
    ELSE IF r.res.infos[1].type = "REFERENCE"
    THEN ResolveError(r.calls \o stat(e, IdRef(r.res.infos[1].sid, r.res.infos[1].oid), NoRest).calls)
    ELSE Resolved(r.res.infos[1], r.calls)

handleCS3RefStat(e, r) ==
    IF r.err \/ r.res.code # "OK" THEN ResolveError(r.calls)
    ELSE IF r.res.infos[1].type = "REFERENCE" THEN ResolveError(r.calls)
    ELSE Resolved(r.res.infos[1], r.calls)

handleCS3RefParts(e, parts) ==
    IF Len(parts) < 2 THEN ResolveError(<<>>)
    ELSE handleCS3RefStat(e, stat(e, IdRef(parts[1], parts[2]), NoRest))

\* handleCS3Ref: the opaque part is <storage_id>/<opaque_id>; one stat by
\* that id
handleCS3Ref(e, opaque) == handleCS3RefParts(e, SplitN(opaque, SLASH, 2))

handleRefURL(e, u) ==
    IF u.err THEN ResolveError(<<>>)
    ELSE IF u.scheme = <<"c", "s", "3">> THEN handleCS3Ref(e, u.opaque)
    ELSE ResolveError(<<>>)

\* handleRef: only the cs3 scheme has a handler
handleRef(e, targetURI) == handleRefURL(e, ParseURL(targetURI))

\* checkRef: panics on a non-reference, fails on an empty target
checkRef(e, ri) ==
    IF ri.type # "REFERENCE" THEN ResolvePanic
    ELSE IF ri.target = <<>> THEN ResolveError(<<>>)
    ELSE handleRef(e, ri.target)

\* the share-child prologue after checkRef: s is the stat of the share name,
\* c the result of checkRef
resolveShareRef(s, c, refMsg) ==
    IF c.outcome = "panic"
    THEN [outcome |-> "panic", res |-> Panic("gateway: calling checkRef on a non reference type"),
          info |-> NoInfo, calls |-> s.calls]
    ELSE IF c.outcome = "err"
    THEN [outcome |-> "fail", res |-> Response("INTERNAL", refMsg),
          info |-> NoInfo, calls |-> s.calls \o c.calls]
    ELSE [outcome |-> "ok", res |-> Response("OK", ""), info |-> c.info,
          calls |-> s.calls \o c.calls]

resolveShareStat(e, s, mustBeRef, msg, refMsg) ==
    IF s.err \/ s.res.code # "OK"
    THEN [outcome |-> "fail", res |-> Response("INTERNAL", msg), info |-> NoInfo, calls |-> s.calls]
    ELSE IF mustBeRef /\ s.res.infos[1].type # "REFERENCE"
    THEN [outcome |-> "fail", res |-> Response("INTERNAL", msg), info |-> NoInfo, calls |-> s.calls]
    ELSE resolveShareRef(s, checkRef(e, s.res.infos[1]), refMsg)

\* The share-child prologue shared by the handlers: stat the share name,
\* (where the handler tests it) require a REFERENCE, resolve it. outcome is
\* "ok" with the resolved info, "fail" with the handler's response (msg when
\* the stat fails, refMsg when the resolution does), or "panic"
resolveShare(e, shareName, mustBeRef, msg, refMsg) ==
    resolveShareStat(e, stat(e, PathRef(shareName), NoRest), mustBeRef, msg, refMsg)

\* what a handler hands back: its response, the downstream calls it made in
\* order, and the providers' contents afterwards
Outcome(r, cs, e) == [res |-> r, calls |-> cs, env |-> e]

\* a handler that stops at a failed resolution
Unresolved(rs, pre, e) == Outcome(rs.res, pre \o rs.calls, e)

\* "return s.stat(ctx, req)" and the like: the routed call's response as it
\* is, or (nil, err)
Returned(s, pre, e) ==
    Outcome(IF s.err THEN GoError("transport") ELSE s.res, pre \o s.calls, e)

----------------------------------------------------------------------------
(* Stat *)

StatShareNameRef(e, s, c, pre) ==
    IF c.outcome = "err"
    THEN Outcome(Response("INTERNAL", "gateway: error resolving reference"),
                 pre \o s.calls \o c.calls, e)
    ELSE Outcome([s.res EXCEPT !.infos = <<[c.info EXCEPT !.path = s.res.infos[1].path]>>],
                 pre \o s.calls \o c.calls, e)

\* Stat on a share name: the info of the target, under the path the provider
\* reported for the reference (orgPath)
StatShareName(e, s, pre) ==
    IF s.err \/ s.res.code # "OK"
    THEN Outcome(Response("INTERNAL", "gateway: error stating"), pre \o s.calls, e)
    ELSE IF s.res.infos[1].type # "REFERENCE"
    THEN Outcome(Panic("gateway: a share name must be of type reference"), pre \o s.calls, e)
    ELSE StatShareNameRef(e, s, checkRef(e, s.res.infos[1]), pre)

\* StatShareChildResolved with the child left off the rewritten reference
StatShareChildResolvedTargetOnly(e, r, child, rs, pre) ==
    IF rs.outcome # "ok" THEN Unresolved(rs, pre, e)
    ELSE Returned(stat(e, PathRef(rs.info.path), r.rest), pre \o rs.calls, e)

StatShareChildResolved(e, r, child, rs, pre) ==
    IF rs.outcome # "ok" THEN Unresolved(rs, pre, e)
    ELSE Returned(stat(e, PathRef(Join(<<rs.info.path, child>>)), r.rest), pre \o rs.calls, e)

\* Stat on a share child: resolve the share name, stat the child of the target
StatShareChild(e, r, sp, pre) ==
    StatShareChildResolved(e, r, sp[3],
                           resolveShare(e, sp[2], FALSE, "gateway: error stating", "error stating"), pre)

StatShape(e, r, p, shape, pre) ==
    IF shape \in {"Plain", "ShareFolder"} THEN Returned(stat(e, r.ref, r.rest), pre, e)
    ELSE IF shape = "ShareName" THEN StatShareName(e, stat(e, r.ref, r.rest), pre)
    ELSE IF shape = "ShareChild" THEN StatShareChild(e, r, splitShare(p), pre)
    ELSE Outcome(Panic("gateway: stating an unknown path"), pre, e)

StatPath(e, r, g) ==
    IF g.err
    THEN Outcome(Response("INTERNAL", "gateway: error getting path for ref"), g.calls, e)
    ELSE StatShape(e, r, g.path, classify(g.path), g.calls)

Stat(e, r) == StatPath(e, r, getPath(e, r.ref, KeysOf(r.rest)))

----------------------------------------------------------------------------
(* ListContainer *)

\* listContainer: route the listing to the provider owning the reference
listContainer(e, ref, rest) ==
    Routed(find(e, ref), ProviderListContainer(e, find(e, ref).addr, ref),
           ProviderCall(find(e, ref).addr, "ListContainer", ref, rest))

\* the loop over the children of the share folder: each is resolved and gets
\* the path <p>/<basename>; the loop ends at the first child that fails:
\* "panic" in checkRef, "nil" when checkRef returned (nil, err)
RECURSIVE ResolveChildren(_, _, _, _)
ResolveChildrenStep(e, p, infos, done, c) ==
    IF c.outcome = "panic" THEN [outcome |-> "panic", infos |-> done.infos, calls |-> done.calls]
    ELSE IF c.outcome = "err"
    THEN [outcome |-> "nil", infos |-> done.infos, calls |-> done.calls \o c.calls]
    ELSE ResolveChildren(e, p, Tail(infos),
                         [outcome |-> "ok",
                          infos |-> Append(done.infos,
                                           [c.info EXCEPT !.path = Join(<<p, Base(Head(infos).path)>>)]),
                          calls |-> done.calls \o c.calls])

ResolveChildren(e, p, infos, done) ==
    IF infos = <<>> THEN done
    ELSE ResolveChildrenStep(e, p, infos, done, checkRef(e, Head(infos)))

ListSharedFolderResolved(e, l, rc, pre) ==
    IF rc.outcome = "panic"
    THEN Outcome(Panic("gateway: calling checkRef on a non reference type"),
                 pre \o l.calls \o rc.calls, e)
    ELSE IF rc.outcome = "nil"
    THEN Outcome(Panic("nil pointer dereference: info.Path"), pre \o l.calls \o rc.calls, e)
    ELSE Outcome([l.res EXCEPT !.infos = rc.infos], pre \o l.calls \o rc.calls, e)

\* ListContainer on the share folder: every child is resolved
ListSharedFolder(e, p, l, pre) ==
    IF l.err
    THEN Outcome(Response("INTERNAL", "gateway: error listing shared folder"), pre \o l.calls, e)
    ELSE ListSharedFolderResolved(e, l,
             ResolveChildren(e, p, l.res.infos, [outcome |-> "ok", infos |-> <<>>, calls |-> <<>>]),
             pre)

\* "paths needs to be converted": every child gets the path
\* path.Join(parent..., basename)
Rebase(infos, parent) ==
    [i \in 1..Len(infos) |->
        [infos[i] EXCEPT !.path = Join(parent \o <<Base(infos[i].path)>>)]]

ListRebased(e, l, parent, pre) ==
    IF l.err \/ l.res.code # "OK"
    THEN Outcome(Response("INTERNAL", "gateway: error listing"), pre \o l.calls, e)
    ELSE Outcome([l.res EXCEPT !.infos = Rebase(l.res.infos, parent)], pre \o l.calls, e)

\* the common end of listing a share name or a share child: the resolved
\* target must be a container; list target + child; rebase the children
ListResolved(e, r, rs, child, parent, pre) ==
    IF rs.outcome # "ok" THEN Unresolved(rs, pre, e)
    ELSE IF rs.info.type # "CONTAINER"
    THEN Outcome(Response("INVALID_ARGUMENT", "resource is not a container"), pre \o rs.calls, e)
    ELSE ListRebased(e, listContainer(e, PathRef(Join(<<rs.info.path, child>>)), KeysOf(r.rest)),
                     parent, pre \o rs.calls)

\* the listing of a share name that lists whatever the target is
ListShareNameAnyType(e, r, rs, p, pre) ==
    IF rs.outcome # "ok" THEN Unresolved(rs, pre, e)
    ELSE ListRebased(e, listContainer(e, PathRef(rs.info.path), KeysOf(r.rest)), <<p>>,
                     pre \o rs.calls)

ListShareName(e, r, rs, p, pre) ==
    IF rs.outcome # "ok" THEN Unresolved(rs, pre, e)
    ELSE IF rs.info.type # "CONTAINER"
    THEN Outcome(Response("INVALID_ARGUMENT", "resource is not a container"), pre \o rs.calls, e)
    ELSE ListRebased(e, listContainer(e, PathRef(rs.info.path), KeysOf(r.rest)), <<p>>,
                     pre \o rs.calls)

ListShareChild(e, r, sp, pre) ==
    ListResolved(e, r, resolveShare(e, sp[2], FALSE, "gateway: error stating share child",
                              "gateway: error resolving reference"),
                 sp[3], <<sp[2], sp[3]>>, pre)

ListContainerShape(e, r, p, shape, pre) ==
    IF shape = "Plain" THEN Returned(listContainer(e, r.ref, r.rest), pre, e)
    ELSE IF shape = "ShareFolder"
    THEN ListSharedFolder(e, p, listContainer(e, r.ref, r.rest), pre)
    ELSE IF shape = "ShareName"
    THEN ListShareName(e, r, resolveShare(e, p, FALSE, "gateway: error stating share",
                                         "gateway: error resolving reference"), p, pre)
    ELSE IF shape = "ShareChild" THEN ListShareChild(e, r, splitShare(p), pre)
    ELSE Outcome(Panic("gateway: stating an unknown path"), pre, e)

ListContainerPath(e, r, g) ==
    IF g.err
    THEN Outcome(Response("INTERNAL", "gateway: error getting path for ref"), g.calls, e)
    ELSE ListContainerShape(e, r, g.path, classify(g.path), g.calls)

ListContainer(e, r) == ListContainerPath(e, r, getPath(e, r.ref, KeysOf(r.rest)))

----------------------------------------------------------------------------
(* CreateContainer, Delete *)

\* the response to an operation refused on the share folder or a share name
Rejected == Response("INVALID_ARGUMENT", "path points to share folder or share name")

\* the end of createContainer, delete: the provider's response as it is, and
\* the change an OK call makes to the provider's contents
Mutated(s, pre, e, after) ==
    Outcome(IF s.err THEN GoError("transport") ELSE s.res, pre \o s.calls,
            IF ~s.err /\ s.res.code = "OK" THEN after ELSE e)

\* createContainer: route to the owning provider, return its response
createContainer(e, ref, rest, pre) ==
    Mutated(Routed(find(e, ref), ProviderCreateContainer(e, find(e, ref).addr, ref),
                   ProviderCall(find(e, ref).addr, "CreateContainer", ref, rest)),
            pre, e, Created(e, find(e, ref).addr, ref))

CreateContainerResolved(e, r, child, rs, pre) ==
    IF rs.outcome # "ok" THEN Unresolved(rs, pre, e)
    ELSE createContainer(e, PathRef(Join(<<rs.info.path, child>>)), r.rest, pre \o rs.calls)

CreateContainerShareChild(e, r, sp, pre) ==
    CreateContainerResolved(e, r, sp[3],
        resolveShare(e, sp[2], TRUE, "gateway: error creating container",
                     "error creating container"), pre)

CreateContainerShape(e, r, p, shape, pre) ==
    IF shape = "Plain" THEN createContainer(e, r.ref, r.rest, pre)
    ELSE IF shape \in {"ShareFolder", "ShareName"} THEN Outcome(Rejected, pre, e)
    ELSE IF shape = "ShareChild" THEN CreateContainerShareChild(e, r, splitShare(p), pre)
    ELSE Outcome(Panic("gateway: create container on unknown path"), pre, e)

CreateContainerPath(e, r, g) ==
    IF g.err
    THEN Outcome(Response("INTERNAL", "gateway: error gettng path for ref"), g.calls, e)
    ELSE CreateContainerShape(e, r, g.path, classify(g.path), g.calls)

CreateContainer(e, r) == CreateContainerPath(e, r, getPath(e, r.ref, NoRest))

\* delete: route to the owning provider, return its response
delete(e, ref, rest, pre) ==
    Mutated(Routed(find(e, ref), ProviderDelete(e, find(e, ref).addr, ref),
                   ProviderCall(find(e, ref).addr, "Delete", ref, rest)),
            pre, e, Deleted(e, find(e, ref).addr, ref))

DeleteResolved(e, r, child, rs, pre) ==
    IF rs.outcome # "ok" THEN Unresolved(rs, pre, e)
    ELSE delete(e, PathRef(Join(<<rs.info.path, child>>)), r.rest, pre \o rs.calls)

DeleteShareChild(e, r, sp, pre) ==
    DeleteResolved(e, r, sp[3], resolveShare(e, sp[2], TRUE, "gateway: error deleting",
                                            "error creating container"), pre)

\* Delete that follows the reference of a share name to its target
DeleteShapeFollowing(e, r, p, shape, pre) ==
    IF shape = "Plain" THEN delete(e, r.ref, r.rest, pre)
    ELSE IF shape = "ShareFolder" THEN Outcome(Rejected, pre, e)
    ELSE IF shape = "ShareName" THEN DeleteShareChild(e, r, <<"ok", p, <<>>>>, pre)
    ELSE IF shape = "ShareChild" THEN DeleteShareChild(e, r, splitShare(p), pre)
    ELSE Outcome(Panic("gateway: delete called on unknown path"), pre, e)

DeleteShape(e, r, p, shape, pre) ==
    IF shape = "Plain" THEN delete(e, r.ref, r.rest, pre)
    ELSE IF shape = "ShareFolder" THEN Outcome(Rejected, pre, e)
    ELSE IF shape = "ShareName" THEN delete(e, PathRef(p), r.rest, pre)
    ELSE IF shape = "ShareChild" THEN DeleteShareChild(e, r, splitShare(p), pre)
    ELSE Outcome(Panic("gateway: delete called on unknown path"), pre, e)

DeletePath(e, r, g) ==
    IF g.err
    THEN Outcome(Response("INTERNAL", "gateway: error gettng path for ref"), g.calls, e)
    ELSE DeleteShape(e, r, g.path, classify(g.path), g.calls)

Delete(e, r) == DeletePath(e, r, getPath(e, r.ref, NoRest))

----------------------------------------------------------------------------
(* InitiateFileUpload, InitiateFileDownload *)

\* s.c.DataGatewayEndpoint
DataGatewayEndpoint == <<"h", "t", "t", "p", "s", ":", "/", "/", "g", "w">>

\* sign: the transfer token's claims
sign(target) == [target |-> target, aud |-> "reva"]

\* the hand-off to the data gateway: unless the provider exposes its
\* endpoint, the endpoint is parsed, its string form is signed into the token
\* and the endpoint is replaced by the data gateway's; msg is the message for
\* an endpoint that does not parse
\* the hand-off that signs the endpoint as the provider gave it
HandOffUnparsed(r, msg) ==
    IF r.expose THEN [r EXCEPT !.expose = FALSE]
    ELSE [r EXCEPT !.endpoint = DataGatewayEndpoint, !.token = sign(r.endpoint),
                   !.expose = FALSE]

HandOff(r, msg) ==
    IF r.expose THEN [r EXCEPT !.expose = FALSE]
    ELSE IF ParseURL(r.endpoint).err THEN Response("INTERNAL", msg)
    ELSE [r EXCEPT !.endpoint = DataGatewayEndpoint, !.token = sign(URLString(r.endpoint)),
                   !.expose = FALSE]

initiateFileUploadAnswered(e, s, pre) ==
    IF s.err THEN Outcome(GoError("gateway: error calling InitiateFileUpload"), pre \o s.calls, e)
    ELSE IF ~s.routed THEN Outcome(s.res, pre \o s.calls, e)
    ELSE IF s.res.code # "OK"
    THEN Outcome(Response("INTERNAL", "error initiating upload"), pre \o s.calls, e)
    ELSE Outcome(HandOff(s.res, "wrong format for upload endpoint"), pre \o s.calls, e)

\* initiateFileUpload: route to the owning provider; a non-OK status of the
\* provider is an internal error
initiateFileUpload(e, ref, rest, expose, url, pre) ==
    initiateFileUploadAnswered(e,
        Routed(find(e, ref), ProviderInitiate(e, find(e, ref).addr, ref, FALSE, expose, url),
               ProviderCall(find(e, ref).addr, "InitiateFileUpload", ref, rest)),
        pre)

InitiateFileUploadResolved(e, r, child, rs, pre) ==
    IF rs.outcome # "ok" THEN Unresolved(rs, pre, e)
    ELSE initiateFileUpload(e, PathRef(Join(<<rs.info.path, child>>)), r.rest, r.expose, r.url,
                            pre \o rs.calls)

InitiateFileUploadShareChild(e, r, sp, pre) ==
    InitiateFileUploadResolved(e, r, sp[3],
        resolveShare(e, sp[2], TRUE, "gateway: error uploading", "error creating container"), pre)

\* InitiateFileUploadShape refusing the share folder only, as Delete does
InitiateFileUploadShapeFolderOnly(e, r, p, shape, pre) ==
    IF shape \in {"Plain", "ShareName"} THEN initiateFileUpload(e, r.ref, r.rest, r.expose, r.url, pre)
    ELSE IF shape = "ShareFolder" THEN Outcome(Rejected, pre, e)
    ELSE IF shape = "ShareChild" THEN InitiateFileUploadShareChild(e, r, splitShare(p), pre)
    ELSE Outcome(Panic("gateway: upload: unknown path"), pre, e)

InitiateFileUploadShape(e, r, p, shape, pre) ==
    IF shape = "Plain" THEN initiateFileUpload(e, r.ref, r.rest, r.expose, r.url, pre)
    ELSE IF shape \in {"ShareFolder", "ShareName"} THEN Outcome(Rejected, pre, e)
    ELSE IF shape = "ShareChild" THEN InitiateFileUploadShareChild(e, r, splitShare(p), pre)
    ELSE Outcome(Panic("gateway: upload: unknown path"), pre, e)

InitiateFileUploadPath(e, r, g) ==
    IF g.err
    THEN Outcome(Response("INTERNAL", "gateway: error gettng path for ref"), g.calls, e)
    ELSE InitiateFileUploadShape(e, r, g.path, classify(g.path), g.calls)

InitiateFileUpload(e, r) == InitiateFileUploadPath(e, r, getPath(e, r.ref, NoRest))

initiateFileDownloadAnswered(e, s, pre) ==
    IF s.err THEN Outcome(GoError("gateway: error calling InitiateFileDownload"), pre \o s.calls, e)
    ELSE IF ~s.routed THEN Outcome(s.res, pre \o s.calls, e)
    ELSE Outcome(HandOff(s.res, "wrong format for download endpoint"), pre \o s.calls, e)

\* initiateFileDownload: route to the owning provider; the provider's status
\* is passed on
initiateFileDownload(e, ref, rest, expose, url, pre) ==
    initiateFileDownloadAnswered(e,
        Routed(find(e, ref), ProviderInitiate(e, find(e, ref).addr, ref, TRUE, expose, url),
               ProviderCall(find(e, ref).addr, "InitiateFileDownload", ref, rest)),
        pre)

InitiateFileDownloadResolved(e, r, child, rs, pre) ==
    IF rs.outcome # "ok" THEN Unresolved(rs, pre, e)
    ELSE initiateFileDownload(e, PathRef(Join(<<rs.info.path, child>>)), r.rest, r.expose, r.url,
                              pre \o rs.calls)

InitiateFileDownloadShareChild(e, r, sp, pre) ==
    InitiateFileDownloadResolved(e, r, sp[3],
        resolveShare(e, sp[2], TRUE, "gateway: error creating container",
                     "error creating container"), pre)

InitiateFileDownloadShape(e, r, p, shape, pre) ==
    IF shape = "Plain" THEN initiateFileDownload(e, r.ref, r.rest, r.expose, r.url, pre)
    ELSE IF shape \in {"ShareFolder", "ShareName"} THEN Outcome(Rejected, pre, e)
    ELSE IF shape = "ShareChild" THEN InitiateFileDownloadShareChild(e, r, splitShare(p), pre)
    ELSE Outcome(Panic("gateway: download: unknown path"), pre, e)

InitiateFileDownloadPath(e, r, g, pre) ==
    IF g.err
    THEN Outcome(Response("INTERNAL", "gateway: error gettng path for ref"), pre \o g.calls, e)
    ELSE InitiateFileDownloadShape(e, r, g.path, classify(g.path), pre \o g.calls)

\* the opening stat of InitiateFileDownload, of the request's own reference
InitiateFileDownloadStat(e, r, s) ==
    IF s.err THEN Outcome(Response("INTERNAL", "gateway: error stating ref"), s.calls, e)
    ELSE IF s.res.code = "NOT_FOUND"
    THEN Outcome(Response("NOT_FOUND", "gateway: file not found"), s.calls, e)
    ELSE IF s.res.code # "OK"
    THEN Outcome(Response("INTERNAL", "gateway: error stating ref"), s.calls, e)
    ELSE InitiateFileDownloadPath(e, r, getPath(e, r.ref, NoRest), s.calls)

InitiateFileDownload(e, r) == InitiateFileDownloadStat(e, r, stat(e, r.ref, NoRest))

----------------------------------------------------------------------------
(* Move *)

\* the Move call leaving the gateway: the request with its source and
\* destination
MoveCall(addr, src, dst, rest) ==
    [to |-> addr, op |-> "Move", ref |-> src, dst |-> dst, rest |-> rest]

\* the share name a provider-side path is, "" when it is none
MountAt(p) ==
    IF p = SharePath("a") THEN "a" ELSE IF p = SharePath("b") THEN "b" ELSE ""

\* the share name a reference names by its path, "" when it names none
MountOf(ref) == IF ref.kind = "path" THEN MountAt(Clean(ref.path)) ELSE ""

\* c.Move at a provider: the source must exist and the destination be free;
\* the provider renames a share name and refuses every other move
MoveFound(found, taken, dst) ==
    IF found = <<>> THEN NotFound
    ELSE IF taken # <<>> THEN Answer(Response("ALREADY_EXISTS", "provider: exists"))
    ELSE IF MountAt(found[1].path) # "" /\ MountOf(dst) # "" THEN Answer(Response("OK", ""))
    ELSE Answer(Response("PERMISSION_DENIED", "provider: move refused"))

ProviderMove(e, addr, src, dst) ==
    IF addr \in e.down THEN TransportError
    ELSE MoveFound(Lookup(e, addr, src), Lookup(e, addr, dst), dst)

\* the providers' contents after an OK Move: the share name has moved
Renamed(e, from, to) ==
    [e EXCEPT !.mounts = [n \in {"a", "b"} |->
                             IF n = to THEN e.mounts[from]
                             ELSE IF n = from THEN MountNone
                             ELSE e.mounts[n]]]

Moved(e, addr, src, dst) == Renamed(e, MountAt(Lookup(e, addr, src)[1].path), MountOf(dst))

moveAnswered(e, a, call, pre, after) ==
    IF a.err THEN Outcome(GoError("transport"), Append(pre, call), e)
    ELSE Outcome(a.res, Append(pre, call), IF a.res.code = "OK" THEN after ELSE e)

\* move that sends the Move to the source's provider whatever the
\* destination's is
moveFoundAnyAddress(e, src, dst, rest, fs, fd, pre) ==
    IF fs.err # "none" \/ fd.err # "none"
    THEN Outcome(Response("INTERNAL", "error finding storage provider"), pre \o fs.calls, e)
    ELSE moveAnswered(e, ProviderMove(e, fs.addr, src, dst), MoveCall(fs.addr, src, dst, rest),
                      pre \o fs.calls \o fd.calls, e)

moveFound(e, src, dst, rest, fs, fd, pre) ==
    IF fs.err = "notfound"
    THEN Outcome(Response("NOT_FOUND", "source storage provider not found"), pre \o fs.calls, e)
    ELSE IF fs.err # "none"
    THEN Outcome(Response("INTERNAL", "error finding storage provider"), pre \o fs.calls, e)
    ELSE IF fd.err = "notfound"
    THEN Outcome(Response("NOT_FOUND", "destination storage provider not found"),
                 pre \o fs.calls \o fd.calls, e)
    ELSE IF fd.err # "none"
    THEN Outcome(Response("INTERNAL", "error finding storage provider"),
                 pre \o fs.calls \o fd.calls, e)
    ELSE IF fs.addr # fd.addr
    THEN Outcome(Response("UNIMPLEMENTED", "gateway: cross storage copy not yet implemented"),
                 pre \o fs.calls \o fd.calls, e)
    ELSE moveAnswered(e, ProviderMove(e, fs.addr, src, dst), MoveCall(fs.addr, src, dst, rest),
                      pre \o fs.calls \o fd.calls,
                      IF ProviderMove(e, fs.addr, src, dst).res.code = "OK"
                      THEN Moved(e, fs.addr, src, dst) ELSE e)

\* move: one registry lookup for each side; a Move at the provider only when
\* both sides have the same address
move(e, src, dst, rest, pre) ==
    moveFound(e, src, dst, rest, findProvider(e, src), findProvider(e, dst), pre)

\* Move that rewrites the source only
MoveResolvedSourceOnly(e, r, child, dchild, rs, pre) ==
    IF rs.outcome # "ok" THEN Unresolved(rs, pre, e)
    ELSE move(e, PathRef(Join(<<rs.info.path, child>>)), r.dst, r.rest, pre \o rs.calls)

MoveResolved(e, r, child, dchild, rs, pre) ==
    IF rs.outcome # "ok" THEN Unresolved(rs, pre, e)
    ELSE move(e, PathRef(Join(<<rs.info.path, child>>)), PathRef(Join(<<rs.info.path, dchild>>)),
              r.rest, pre \o rs.calls)

\* the share-name stat of Move: a non-reference is refused under a message of
\* its own
moveShareStat(e, s) ==
    IF ~s.err /\ s.res.code = "OK" /\ s.res.infos[1].type # "REFERENCE"
    THEN [outcome |-> "fail", res |-> Response("INTERNAL", "gateway: error deleting"),
          info |-> NoInfo, calls |-> s.calls]
    ELSE resolveShareStat(e, s, TRUE, "gateway: error moving", "error moving")

\* Move between two share children: the share names must be equal
MoveShareChild(e, r, sp, dsp, pre) ==
    IF sp[2] # dsp[2] THEN Outcome(Response("INTERNAL", "gateway: error moving"), pre, e)
    ELSE MoveResolved(e, r, sp[3], dsp[3], moveShareStat(e, stat(e, PathRef(sp[2]), NoRest)), pre)

\* the chain of tests of Move on the two paths; && evaluates its right side
\* only when the left one holds
MoveShape(e, r, p, dp, pre) ==
    IF ~inSharedFolder(p) /\ ~inSharedFolder(dp) THEN move(e, r.ref, r.dst, r.rest, pre)
    ELSE IF isShareName(p) = "panic" THEN Outcome(Panic("split: len(parts) < 2"), pre, e)
    ELSE IF isShareName(p) = "true" /\ isShareName(dp) = "panic"
    THEN Outcome(Panic("split: len(parts) < 2"), pre, e)
    ELSE IF isShareName(p) = "true" /\ isShareName(dp) = "true"
    THEN move(e, r.ref, r.dst, r.rest, pre)
    ELSE IF isShareChild(p) = "true" /\ isShareChild(dp) = "panic"
    THEN Outcome(Panic("split: len(parts) < 2"), pre, e)
    ELSE IF isShareChild(p) = "true" /\ isShareChild(dp) = "true"
    THEN MoveShareChild(e, r, splitShare(p), splitShare(dp), pre)
    ELSE Outcome(Panic("gateway: move called on unknown path"), pre, e)

MoveDestination(e, r, p, gd, pre) ==
    IF gd.err
    THEN Outcome(Response("INTERNAL", "gateway: error gettng path for ref"), pre \o gd.calls, e)
    ELSE MoveShape(e, r, p, gd.path, pre \o gd.calls)

MoveSource(e, r, g) ==
    IF g.err
    THEN Outcome(Response("INTERNAL", "gateway: error gettng path for ref"), g.calls, e)
    ELSE MoveDestination(e, r, g.path, getPath(e, r.dst, NoRest), g.calls)

Move(e, r) == MoveSource(e, r, getPath(e, r.ref, NoRest))

----------------------------------------------------------------------------
(* The operations without share awareness *)

\* the provider's answer to a metadata, version or recycle call: the
\* resource must exist; the recycle listing names no resource
ProviderRouted(e, addr, ref) ==
    IF addr \in e.down THEN TransportError
    ELSE IF ref = NoRef THEN Answer(Response("OK", ""))
    ELSE IF Lookup(e, addr, ref) = <<>> THEN NotFound
    ELSE Answer(Response("OK", ""))

\* a handler that stats the reference before it routes the call
routeByStat(e, r, callRef) ==
    Returned(Routed(find(e, r.ref), ProviderRouted(e, find(e, r.ref).addr, callRef),
                    ProviderCall(find(e, r.ref).addr, r.op, callRef, r.rest)),
             stat(e, r.ref, NoRest).calls, e)

\* the body the seven handlers share: find the provider of the request's
\* reference, call it, return its response; callRef is the reference of the
\* request sent to the provider
routeByReference(e, r, callRef) ==
    Returned(Routed(find(e, r.ref), ProviderRouted(e, find(e, r.ref).addr, callRef),
                    ProviderCall(find(e, r.ref).addr, r.op, callRef, r.rest)),
             <<>>, e)

SetArbitraryMetadata(e, r) == routeByReference(e, r, r.ref)
UnsetArbitraryMetadata(e, r) == routeByReference(e, r, r.ref)
ListFileVersions(e, r) == routeByReference(e, r, r.ref)
RestoreFileVersion(e, r) == routeByReference(e, r, r.ref)
\* ListRecycle sends the provider a request without the reference
ListRecycle(e, r) == routeByReference(e, r, NoRef)
RestoreRecycleItem(e, r) == routeByReference(e, r, r.ref)
PurgeRecycle(e, r) == routeByReference(e, r, r.ref)

RoutedOps ==
    {"SetArbitraryMetadata", "UnsetArbitraryMetadata", "ListFileVersions",
     "RestoreFileVersion", "ListRecycle", "RestoreRecycleItem", "PurgeRecycle"}

RoutedHandler(e, r) ==
    IF r.op = "SetArbitraryMetadata" THEN SetArbitraryMetadata(e, r)
    ELSE IF r.op = "UnsetArbitraryMetadata" THEN UnsetArbitraryMetadata(e, r)
    ELSE IF r.op = "ListFileVersions" THEN ListFileVersions(e, r)
    ELSE IF r.op = "RestoreFileVersion" THEN RestoreFileVersion(e, r)
    ELSE IF r.op = "ListRecycle" THEN ListRecycle(e, r)
    ELSE IF r.op = "RestoreRecycleItem" THEN RestoreRecycleItem(e, r)
    ELSE PurgeRecycle(e, r)

----------------------------------------------------------------------------
(* The state machine: one request at a time *)

\* the request paths
Paths == PathsOver(Roots, MaxTail)

\* the references of requests: by path, or by the id of a share name, of the
\* share folder, of the share target, of a resource no provider holds, of a
\* storage no one owns, or without opaque id
Refs ==
    {PathRef(p) : p \in Paths}
    \cup {IdRef(Sid1, <<"m", "a">>), IdRef(Sid1, <<"m">>), IdRef(Sid2, <<"t">>),
          IdRef(Sid2, <<"z">>), IdRef(<<"s", "9">>, <<"t">>), IdRef(Sid2, <<>>)}

Request(op, ref, rest, expose) ==
    [op |-> op, ref |-> ref, rest |-> rest, expose |-> expose]

NoRequest == Request("none", NoRef, NoRest, FALSE)

\* the opaque data and metadata keys of requests, carried along unread
Rests == {Rest("o1", "k1")}

Providers == {P1, P2}

HealthyEnv(ma, mb) ==
    [mounts |-> [n \in {"a", "b"} |-> IF n = "a" THEN ma ELSE mb],
     dir |-> FALSE, down |-> {}, registry |-> "OK"]

\* the providers' contents and the collaborators' health at start
Envs ==
    {HealthyEnv(ma, MountOk) : ma \in MountKinds}
    \cup {HealthyEnv(MountOk, mb) : mb \in {MountChain, MountNone}}
    \cup {[HealthyEnv(MountOk, MountOk) EXCEPT !.down = {a}] : a \in Providers}
    \cup {[HealthyEnv(MountOk, MountOk) EXCEPT !.registry = c] : c \in {"NOT_FOUND", "UNAVAILABLE"}}

Init ==
    /\ env \in Envs
    /\ req = NoRequest
    /\ res = NoRes
    /\ calls = <<>>
    /\ pc = "idle"

\* a request is served: the handler runs to its end
Serve(r, o) ==
    /\ req' = r
    /\ res' = o.res
    /\ calls' = o.calls
    /\ env' = o.env
    /\ pc' = "done"

StatRequest ==
    /\ pc = "idle"
    /\ \E ref \in Refs, o \in Rests :
        \E r \in {Request("Stat", ref, o, FALSE)} :
            \E out \in {Stat(env, r)} : Serve(r, out)

ListContainerRequest ==
    /\ pc = "idle"
    /\ \E ref \in Refs, o \in Rests :
        \E r \in {Request("ListContainer", ref, o, FALSE)} :
            \E out \in {ListContainer(env, r)} : Serve(r, out)

CreateContainerRequest ==
    /\ pc = "idle"
    /\ \E ref \in Refs, o \in Rests :
        \E r \in {Request("CreateContainer", ref, o, FALSE)} :
            \E out \in {CreateContainer(env, r)} : Serve(r, out)

DeleteRequest ==
    /\ pc = "idle"
    /\ \E ref \in Refs, o \in Rests :
        \E r \in {Request("Delete", ref, o, FALSE)} :
            \E out \in {Delete(env, r)} : Serve(r, out)

\* the endpoints a provider answers: a URL in the form URL.String gives it,
\* one with an upper-case scheme, one without a scheme
ProviderURLs ==
    {<<"h", "t", "t", "p", "s", ":", "/", "/", "p", "/", "f">>,
     <<"H", "T", "T", "P", "S", ":", "/", "/", "p", "/", "f">>,
     <<":", "p">>}

\* an upload or download request, with the provider's answer to it: whether
\* its endpoint is exposed, and the endpoint
TransferRequest(op, ref, rest, expose, url) ==
    [op |-> op, ref |-> ref, rest |-> rest, expose |-> expose, url |-> url]

InitiateFileUploadRequest ==
    /\ pc = "idle"
    /\ \E ref \in Refs, o \in Rests, x \in BOOLEAN, u \in ProviderURLs :
        \E r \in {TransferRequest("InitiateFileUpload", ref, o, x, u)} :
            \E out \in {InitiateFileUpload(env, r)} : Serve(r, out)

InitiateFileDownloadRequest ==
    /\ pc = "idle"
    /\ \E ref \in Refs, o \in Rests, x \in BOOLEAN, u \in ProviderURLs :
        \E r \in {TransferRequest("InitiateFileDownload", ref, o, x, u)} :
            \E out \in {InitiateFileDownload(env, r)} : Serve(r, out)

\* a Move request: a request with a destination
MoveRequestOf(src, dst, rest) ==
    [op |-> "Move", ref |-> src, dst |-> dst, rest |-> rest, expose |-> FALSE]

\* the destinations of Move requests: share children of either share name, a
\* share name, the share folder, plain paths of either provider and of none,
\* the home, and a share name by id
MoveDestinations ==
    {PathRef(SharePath("a") \o <<SLASH>> \o Seg_b),
     PathRef(SharePath("b") \o <<SLASH>> \o Seg_b),
     PathRef(SharePath("b")),
     PathRef(getSharedFolder),
     PathRef(getHome \o <<SLASH>> \o Seg_b),
     PathRef(TargetDir),
     PathRef(<<SLASH>> \o Seg_b),
     PathRef(getHome),
     IdRef(Sid1, <<"m", "b">>)}

MoveRequest ==
    /\ pc = "idle"
    /\ \E src \in Refs, dst \in MoveDestinations, o \in Rests :
        \E r \in {MoveRequestOf(src, dst, o)} :
            \E out \in {Move(env, r)} : Serve(r, out)

\* a request of one of the operations without share awareness
RoutedRequest ==
    /\ pc = "idle"
    /\ \E op \in RoutedOps, ref \in Refs, o \in Rests :
        \E r \in {Request(op, ref, o, FALSE)} :
            \E out \in {RoutedHandler(env, r)} : Serve(r, out)

\* the response has been sent: the gateway keeps nothing of the request
Return ==
    /\ pc = "done"
    /\ req' = NoRequest
    /\ res' = NoRes
    /\ calls' = <<>>
    /\ pc' = "idle"
    /\ UNCHANGED env

Next ==
    \/ StatRequest
    \/ ListContainerRequest
    \/ CreateContainerRequest
    \/ DeleteRequest
    \/ InitiateFileUploadRequest
    \/ InitiateFileDownloadRequest
    \/ MoveRequest
    \/ RoutedRequest
    \/ Return

Spec == Init /\ [][Next]_vars

----------------------------------------------------------------------------
(* The transfer signer and the verification of its tokens *)

\* largest absolute value of the configured transfer_expires (seconds)
MaxExpires == 2

\* last second of the wall clock
MaxClock == 4

\* most seconds that pass between the two readings of the clock in sign
MaxLapse == 1

\* s.c.TransferExpires: whatever the configuration holds
TransferExpiresValues == (0 - MaxExpires)..MaxExpires

\* s.c.TransferSharedSecret, and the secrets a verifier may hold
Secrets == {"s1", "s2"}

\* the targets signed: sign takes any string
SignTargets == {URLString(u) : u \in ProviderURLs}

\* transferClaims as sign fills them: ExpiresAt from a first reading of the
\* clock plus the TTL, IssuedAt from a second reading
transferClaims(target, ttl, expiresNow, issuedNow) ==
    [target |-> target, aud |-> "reva", exp |-> expiresNow + ttl, iat |-> issuedNow]

\* jwt.NewWithClaims(HS256, claims).SignedString(secret): the signature is
\* the key it was made with, which is all a verifier can tell of it
SignedString(claims, secret) ==
    [kind |-> "token", alg |-> "HS256", claims |-> claims, key |-> secret]

\* the signer that signs with a key of its own
signTokenFixedKey(c, target, expiresNow, issuedNow) ==
    SignedString(transferClaims(target, c.TransferExpires, expiresNow, issuedNow), "s1")

\* sign, with the two readings of the clock it makes
signToken(c, target, expiresNow, issuedNow) ==
    SignedString(transferClaims(target, c.TransferExpires, expiresNow, issuedNow),
                 c.TransferSharedSecret)

Invalid == [kind |-> "invalid"]

\* the data gateway's verification of a token at a time, under its secret:
\* the signature must be made with that secret and the time not be after exp
verify(tkn, secret, now) ==
    IF tkn.alg # "HS256" \/ tkn.key # secret THEN Invalid
    ELSE IF now > tkn.claims.exp THEN Invalid
    ELSE [kind |-> "claims", target |-> tkn.claims.target, aud |-> tkn.claims.aud,
          iat |-> tkn.claims.iat, exp |-> tkn.claims.exp]

\* env is the configuration and the wall clock, calls holds the token minted
InitSign ==
    /\ env \in {[TransferExpires |-> ttl, TransferSharedSecret |-> k, now |-> 0] :
                    ttl \in TransferExpiresValues, k \in Secrets}
    /\ req = [op |-> "none", target |-> <<>>, key |-> "", at |-> 0]
    /\ res = NoRes
    /\ calls = <<>>
    /\ pc = "idle"

\* a second of the wall clock passes
Tick ==
    /\ env.now < MaxClock
    /\ env' = [env EXCEPT !.now = @ + 1]
    /\ UNCHANGED <<req, res, calls, pc>>

\* sign(target): the clock is read for ExpiresAt and read again for IssuedAt
SignRequest ==
    /\ pc = "idle"
    /\ \E target \in SignTargets, lapse \in 0..MaxLapse :
          /\ env.now + lapse <= MaxClock
          /\ req' = [op |-> "sign", target |-> target, key |-> "", at |-> env.now + lapse]
          /\ res' = signToken(env, target, env.now, env.now + lapse)
          /\ calls' = <<signToken(env, target, env.now, env.now + lapse)>>
          /\ env' = [env EXCEPT !.now = @ + lapse]
    /\ pc' = "signed"

\* the data gateway verifies the minted token, now, under the secret it holds
VerifyRequest ==
    /\ pc \in {"signed", "verified"}
    /\ \E k \in Secrets :
          /\ req' = [req EXCEPT !.op = "verify", !.key = k, !.at = env.now]
          /\ res' = verify(calls[1], k, env.now)
    /\ pc' = "verified"
    /\ UNCHANGED <<env, calls>>

NextSign ==
    \/ Tick
    \/ SignRequest
    \/ VerifyRequest

SpecSign == InitSign /\ [][NextSign]_vars

----------------------------------------------------------------------------
(* The file-backed invite manager (package json) *)

\* the goroutines that call the manager at the same time
NumProcs == 2

Procs == 1..NumProcs

\* the users of this site who invite, the tokens token.CreateToken may
\* return, and the remote users who accept
Inviters == {"u1", "u2"}
Tokens == {"t1", "t2"}
RemoteUsers == {"r1", "r2"}

NoInvite == [op |-> "none", user |-> "", token |-> "", remote |-> ""]
InviteCall(op, user, token, remote) ==
    [op |-> op, user |-> user, token |-> token, remote |-> remote]

\* inviteModel.Save: the whole model, as written to the file
Saved(e) == [invites |-> e.Invites, accepted_users |-> e.AcceptedUsers]

\* getTokenIfValid of either manager: the message of its error, "" if none
getTokenIfValid(e, token) ==
    IF e.Invites[token] = "" THEN "invalid token"
    ELSE IF token \in e.Expired THEN "token expired"
    ELSE ""

\* the test of AcceptInvite and GetRemoteUser: is the user in the list
Accepted(users, remote) == \E i \in 1..Len(users) : users[i] = remote

\* GetRemoteUser: the accepted user with that id, or a not-found error
GetRemoteUser(e, user, remote) ==
    IF Accepted(e.AcceptedUsers[user], remote) THEN remote ELSE "not found"

\* a mutex that is given to whoever asks
LockedByAnyone(e) == TRUE

\* sync.Mutex.Lock returns only when nobody holds the mutex
Lockable(e) == e.mutex = 0

\* New: the model as loadOrCreate builds it from an empty file
InitJSON ==
    /\ env = [Invites |-> [t \in Tokens |-> ""],
              Expired |-> {},
              AcceptedUsers |-> [u \in Inviters |-> <<>>],
              File |-> [invites |-> [t \in Tokens |-> ""],
                        accepted_users |-> [u \in Inviters |-> <<>>]],
              mutex |-> 0]
    /\ req = [p \in Procs |-> NoInvite]
    /\ res = [p \in Procs |-> ""]
    /\ calls = <<>>
    /\ pc = [p \in Procs |-> "idle"]

\* GenerateToken up to m.Lock(): the token of token.CreateToken is one no
\* other call has been given
jsonGenerateToken(p) ==
    /\ pc[p] = "idle"
    /\ \E u \in Inviters, t \in Tokens :
          /\ env.Invites[t] = ""
          /\ \A q \in Procs : req[q].op = "GenerateToken" => req[q].token # t
          /\ req' = [req EXCEPT ![p] = InviteCall("GenerateToken", u, t, "")]
    /\ pc' = [pc EXCEPT ![p] = "lock"]
    /\ UNCHANGED <<env, res, calls>>

\* AcceptInvite up to m.Lock()
jsonAcceptInvite(p) ==
    /\ pc[p] = "idle"
    /\ \E t \in Tokens, r \in RemoteUsers :
          req' = [req EXCEPT ![p] = InviteCall("AcceptInvite", "", t, r)]
    /\ pc' = [pc EXCEPT ![p] = "lock"]
    /\ UNCHANGED <<env, res, calls>>

\* m.Lock()
jsonLock(p) ==
    /\ pc[p] = "lock"
    /\ Lockable(env)
    /\ env' = [env EXCEPT !.mutex = p]
    /\ pc' = [pc EXCEPT ![p] = IF req[p].op = "GenerateToken" THEN "store" ELSE "accept"]
    /\ UNCHANGED <<req, res, calls>>

\* GenerateToken: m.model.Invites[token] = inviteToken
jsonStore(p) ==
    /\ pc[p] = "store"
    /\ env' = [env EXCEPT !.Invites[req[p].token] = req[p].user]
    /\ pc' = [pc EXCEPT ![p] = "save"]
    /\ UNCHANGED <<req, res, calls>>

\* an AcceptInvite that uses its token up
jsonAcceptOnce(p) ==
    /\ pc[p] = "accept"
    /\ IF getTokenIfValid(env, req[p].token) # ""
       THEN /\ res' = [res EXCEPT ![p] = getTokenIfValid(env, req[p].token)]
            /\ pc' = [pc EXCEPT ![p] = "unlock"]
            /\ UNCHANGED env
       ELSE IF Accepted(env.AcceptedUsers[env.Invites[req[p].token]], req[p].remote)
       THEN /\ res' = [res EXCEPT ![p] = "user already added to accepted users"]
            /\ pc' = [pc EXCEPT ![p] = "unlock"]
            /\ UNCHANGED env
       ELSE /\ env' = [env EXCEPT !.AcceptedUsers[env.Invites[req[p].token]] =
                                      Append(@, req[p].remote),
                                  !.Invites[req[p].token] = ""]
            /\ pc' = [pc EXCEPT ![p] = "save"]
            /\ UNCHANGED res
    /\ UNCHANGED <<req, calls>>

\* AcceptInvite under the lock: the token is looked up, the inviter's list is
\* searched for the remote user, and the user is appended
jsonAccept(p) ==
    /\ pc[p] = "accept"
    /\ IF getTokenIfValid(env, req[p].token) # ""
       THEN /\ res' = [res EXCEPT ![p] = getTokenIfValid(env, req[p].token)]
            /\ pc' = [pc EXCEPT ![p] = "unlock"]
            /\ UNCHANGED env
       ELSE IF Accepted(env.AcceptedUsers[env.Invites[req[p].token]], req[p].remote)
       THEN /\ res' = [res EXCEPT ![p] = "user already added to accepted users"]
            /\ pc' = [pc EXCEPT ![p] = "unlock"]
            /\ UNCHANGED env
       ELSE /\ env' = [env EXCEPT !.AcceptedUsers[env.Invites[req[p].token]] =
                                      Append(@, req[p].remote)]
            /\ pc' = [pc EXCEPT ![p] = "save"]
            /\ UNCHANGED res
    /\ UNCHANGED <<req, calls>>

\* m.model.Save(): the file is rewritten, unless writing fails
jsonSave(p) ==
    /\ pc[p] = "save"
    /\ \E written \in BOOLEAN :
          /\ env' = IF written THEN [env EXCEPT !.File = Saved(env)] ELSE env
          /\ res' = [res EXCEPT ![p] = IF written THEN "ok" ELSE "error saving model"]
    /\ pc' = [pc EXCEPT ![p] = "unlock"]
    /\ UNCHANGED <<req, calls>>

\* the return, with the deferred m.Unlock(): the caller has its answer
jsonUnlock(p) ==
    /\ pc[p] = "unlock"
    /\ env' = [env EXCEPT !.mutex = 0]
    /\ req' = [req EXCEPT ![p] = NoInvite]
    /\ res' = [res EXCEPT ![p] = ""]
    /\ pc' = [pc EXCEPT ![p] = "idle"]
    /\ UNCHANGED calls

\* the calls that hold the mutex and are about to append to the list of u:
\* their write of m.model.AcceptedUsers[u] is not ordered with a read by p
RacingAppends(p, u) ==
    {q \in Procs \ {p} :
        /\ pc[q] = "accept"
        /\ getTokenIfValid(env, req[q].token) = ""
        /\ env.Invites[req[q].token] = u
        /\ ~Accepted(env.AcceptedUsers[u], req[q].remote)}

\* the Go runtime's report of a map read during a map write
FatalError == "fatal error: concurrent map read and map write"

\* what the unlocked read of GetRemoteUser can give: the answer from the list
\* as it is and, when an append races with it, the answer from the list
\* with the append or the runtime's fatal error
RemoteUserRead(p, u, r) ==
    {GetRemoteUser(env, u, r)}
    \cup {GetRemoteUser([env EXCEPT !.AcceptedUsers[u] = Append(@, req[q].remote)], u, r) :
              q \in RacingAppends(p, u)}
    \cup (IF RacingAppends(p, u) = {} THEN {} ELSE {FatalError})

\* GetRemoteUser, asked by an inviter: the list is read without m.Lock(); a
\* fatal error ends the program, every call with it
jsonGetRemoteUser(p) ==
    /\ pc[p] = "idle"
    /\ \E u \in Inviters, r \in RemoteUsers :
          \E out \in RemoteUserRead(p, u, r) :
             /\ req' = [req EXCEPT ![p] = InviteCall("GetRemoteUser", u, "", r)]
             /\ res' = [res EXCEPT ![p] = out]
             /\ pc' = IF out = FatalError THEN [q \in Procs |-> "fatal"]
                      ELSE [pc EXCEPT ![p] = "return"]
    /\ UNCHANGED <<env, calls>>

\* GetRemoteUser returns: the caller has its answer
jsonReturn(p) ==
    /\ pc[p] = "return"
    /\ req' = [req EXCEPT ![p] = NoInvite]
    /\ res' = [res EXCEPT ![p] = ""]
    /\ pc' = [pc EXCEPT ![p] = "idle"]
    /\ UNCHANGED <<env, calls>>

\* time passes the expiration of a token
Expire ==
    /\ \E t \in Tokens :
          /\ env.Invites[t] # ""
          /\ t \notin env.Expired
          /\ env' = [env EXCEPT !.Expired = @ \cup {t}]
    /\ UNCHANGED <<req, res, calls, pc>>

NextJSON ==
    \/ \E p \in Procs : jsonGenerateToken(p)
    \/ \E p \in Procs : jsonAcceptInvite(p)
    \/ \E p \in Procs : jsonLock(p)
    \/ \E p \in Procs : jsonStore(p)
    \/ \E p \in Procs : jsonAccept(p)
    \/ \E p \in Procs : jsonSave(p)
    \/ \E p \in Procs : jsonUnlock(p)
    \/ Expire

SpecJSON == InitJSON /\ [][NextJSON]_vars

\* the manager with its readers: GetRemoteUser changes nothing of the model,
\* so the calls that write it are the same with and without it
NextJSONReaders ==
    \/ NextJSON
    \/ \E p \in Procs : jsonGetRemoteUser(p)
    \/ \E p \in Procs : jsonReturn(p)

SpecJSONReaders == InitJSON /\ [][NextJSONReaders]_vars

----------------------------------------------------------------------------
(* The in-memory invite manager (package memory) *)

\* what a call has read so far: the inviter of its token, the list it loaded
NoLocal == [msg |-> "", inviter |-> "", users |-> <<>>]

\* New: two empty maps; calls is the set of the acceptances that returned nil
InitMemory ==
    /\ env = [Invites |-> [t \in Tokens |-> ""],
              Expired |-> {},
              AcceptedUsers |-> [u \in Inviters |-> <<>>]]
    /\ req = [p \in Procs |-> NoInvite]
    /\ res = [p \in Procs |-> NoLocal]
    /\ calls = {}
    /\ pc = [p \in Procs |-> "idle"]

\* GenerateToken: one Store into m.Invites
memoryGenerateToken(p) ==
    /\ pc[p] = "idle"
    /\ \E u \in Inviters, t \in Tokens :
          /\ env.Invites[t] = ""
          /\ req' = [req EXCEPT ![p] = InviteCall("GenerateToken", u, t, "")]
          /\ env' = [env EXCEPT !.Invites[t] = u]
    /\ res' = [res EXCEPT ![p] = [NoLocal EXCEPT !.msg = "ok"]]
    /\ pc' = [pc EXCEPT ![p] = "done"]
    /\ UNCHANGED calls

\* AcceptInvite up to and with getTokenIfValid: one Load from m.Invites
memoryAcceptInvite(p) ==
    /\ pc[p] = "idle"
    /\ \E t \in Tokens, r \in RemoteUsers :
          /\ req' = [req EXCEPT ![p] = InviteCall("AcceptInvite", "", t, r)]
          /\ res' = [res EXCEPT ![p] =
                        [NoLocal EXCEPT !.msg = getTokenIfValid(env, t),
                                        !.inviter = env.Invites[t]]]
          /\ pc' = [pc EXCEPT ![p] = IF getTokenIfValid(env, t) # "" THEN "done" ELSE "load"]
    /\ UNCHANGED <<env, calls>>

\* AcceptInvite: m.AcceptedUsers.Load(currUser) and the search of the list
memoryLoad(p) ==
    /\ pc[p] = "load"
    /\ IF Accepted(env.AcceptedUsers[res[p].inviter], req[p].remote)
       THEN /\ res' = [res EXCEPT ![p].msg = "user already added to accepted users"]
            /\ pc' = [pc EXCEPT ![p] = "done"]
       ELSE /\ res' = [res EXCEPT ![p].users = env.AcceptedUsers[res[p].inviter]]
            /\ pc' = [pc EXCEPT ![p] = "store"]
    /\ UNCHANGED <<env, req, calls>>

\* AcceptInvite: m.AcceptedUsers.Store(currUser, append(acceptedUsers,
\* remoteUser)) with the list as it was loaded, and return nil
memoryStore(p) ==
    /\ pc[p] = "store"
    /\ env' = [env EXCEPT !.AcceptedUsers[res[p].inviter] =
                              Append(res[p].users, req[p].remote)]
    /\ res' = [res EXCEPT ![p].msg = "ok"]
    /\ calls' = calls \cup {<<res[p].inviter, req[p].remote>>}
    /\ pc' = [pc EXCEPT ![p] = "done"]
    /\ UNCHANGED req

\* GetRemoteUser, asked by an inviter: one Load from m.AcceptedUsers
memoryGetRemoteUser(p) ==
    /\ pc[p] = "idle"
    /\ \E u \in Inviters, r \in RemoteUsers :
          /\ req' = [req EXCEPT ![p] = InviteCall("GetRemoteUser", u, "", r)]
          /\ res' = [res EXCEPT ![p] = [NoLocal EXCEPT !.msg = GetRemoteUser(env, u, r)]]
    /\ pc' = [pc EXCEPT ![p] = "done"]
    /\ UNCHANGED <<env, calls>>

\* the caller has its answer
memoryReturn(p) ==
    /\ pc[p] = "done"
    /\ req' = [req EXCEPT ![p] = NoInvite]
    /\ res' = [res EXCEPT ![p] = NoLocal]
    /\ pc' = [pc EXCEPT ![p] = "idle"]
    /\ UNCHANGED <<env, calls>>

NextMemory ==
    \/ \E p \in Procs : memoryGenerateToken(p)
    \/ \E p \in Procs : memoryAcceptInvite(p)
    \/ \E p \in Procs : memoryLoad(p)
    \/ \E p \in Procs : memoryStore(p)
    \/ \E p \in Procs : memoryGetRemoteUser(p)
    \/ \E p \in Procs : memoryReturn(p)
    \/ Expire

SpecMemory == InitMemory /\ [][NextMemory]_vars

\* an invite manager of either driver: the file-backed one has the mutex
FileBacked == "mutex" \in DOMAIN env

InitManagers == InitJSON \/ InitMemory

NextManagers ==
    \/ FileBacked /\ NextJSON
    \/ ~FileBacked /\ NextMemory

SpecManagers == InitManagers /\ [][NextManagers]_vars

----------------------------------------------------------------------------
(* The provider authorizer (package json of ocm/provider/authorizer) *)

\* the domains of the providers file, and one that is not in it
ListedDomains == {"d1"}
Domains == {"", "d1", "d2"}

\* the Host of a service: an address, a name, a name behind a scheme
ServiceHosts == {"ip1", "ip2", "h1", "https://h1"}
ServiceTypes == {"OCM", "Webdav"}

\* most services a provider comes with
MaxServices == 2

Service(host, type) == [Host |-> host, Type |-> type]
ServiceLists == SeqsUpTo({Service(h, t) : h \in ServiceHosts, t \in ServiceTypes}, MaxServices)

\* what the resolver may hold for the name h1: <<>> is a failing lookup
Resolutions == {<<>>, <<"ip1">>, <<"ip2">>, <<"ip1", "ip2">>}

\* net.LookupIP: an address resolves to itself, a name as the resolver says
LookupIP(e, host) == IF host = "h1" THEN e.dns ELSE <<host>>

\* strings.TrimPrefix(s.Host, "https://"), then "http://"
TrimScheme(host) == IF host = "https://h1" THEN "h1" ELSE host

\* getOCMHost: the host of the first service of type OCM, "" if there is none
RECURSIVE getOCMHost(_)
getOCMHost(services) ==
    IF services = <<>> THEN ""
    ELSE IF Head(services).Type = "OCM" THEN TrimScheme(Head(services).Host)
    ELSE getOCMHost(Tail(services))

\* a *sync.Map: nil, or the hosts stored with their lists
NilMap == [nil |-> TRUE, has |-> {}, ips |-> [h \in {"h1", "ip1", "ip2"} |-> <<>>]]

Allowed(providers, domain) == domain = "" \/ domain \in providers

AuthError(msg) == [kind |-> "error", msg |-> msg]
AuthNil == [kind |-> "nil", msg |-> ""]
AuthPanic == [kind |-> "panic", msg |-> "nil pointer dereference"]

AuthOutcome(r, ips, lookups) == [res |-> r, providerIPs |-> ips, lookups |-> lookups]

\* the end of IsProviderAllowed: is Services[0].Host in the list
hostListed(provider, ipList, ips, lookups) ==
    IF \E i \in 1..Len(ipList) : ipList[i] = provider.Services[1].Host
    THEN AuthOutcome(AuthNil, ips, lookups)
    ELSE AuthOutcome(AuthError("OCM Host"), ips, lookups)

\* IsProviderAllowed from a.providerIPs.Load on: the cached list, or the
\* list looked up and stored; Load on a nil map is a nil dereference
verifyHost(e, provider, ocmHost) ==
    IF e.providerIPs.nil THEN AuthOutcome(AuthPanic, e.providerIPs, <<>>)
    ELSE IF ocmHost \in e.providerIPs.has
    THEN hostListed(provider, e.providerIPs.ips[ocmHost], e.providerIPs, <<>>)
    ELSE IF LookupIP(e, ocmHost) = <<>>
    THEN AuthOutcome(AuthError("json: error looking up client IP"), e.providerIPs, <<ocmHost>>)
    ELSE hostListed(provider, LookupIP(e, ocmHost),
                    [e.providerIPs EXCEPT !.has = @ \cup {ocmHost},
                                          !.ips[ocmHost] = LookupIP(e, ocmHost)],
                    <<ocmHost>>)

IsProviderAllowed(e, provider) ==
    IF ~Allowed(e.providers, provider.Domain)
    THEN AuthOutcome(AuthError("not found"), e.providerIPs, <<>>)
    ELSE IF ~e.VerifyRequestHostname THEN AuthOutcome(AuthNil, e.providerIPs, <<>>)
    ELSE IF provider.Services = <<>>
    THEN AuthOutcome(AuthError("No IP provided"), e.providerIPs, <<>>)
    ELSE IF getOCMHost(provider.Services) = ""
    THEN AuthOutcome(AuthError("json: ocm host not specified for mesh provider"),
                     e.providerIPs, <<>>)
    ELSE verifyHost(e, provider, getOCMHost(provider.Services))

NoProvider == [Domain |-> "", Services |-> <<>>]

\* New: the providers of the file and the configuration; providerIPs is
\* left as the zero value of its type
InitAuthorizer ==
    /\ env \in {[providers |-> ListedDomains, VerifyRequestHostname |-> v,
                 providerIPs |-> NilMap, dns |-> d] :
                    v \in BOOLEAN, d \in Resolutions}
    /\ req = NoProvider
    /\ res = NoRes
    /\ calls = <<>>
    /\ pc = "idle"

IsProviderAllowedRequest ==
    /\ pc = "idle"
    /\ \E d \in Domains, s \in ServiceLists :
          /\ req' = [Domain |-> d, Services |-> s]
          /\ res' = IsProviderAllowed(env, [Domain |-> d, Services |-> s]).res
          /\ calls' = IsProviderAllowed(env, [Domain |-> d, Services |-> s]).lookups
          /\ env' = [env EXCEPT !.providerIPs =
                        IsProviderAllowed(env, [Domain |-> d, Services |-> s]).providerIPs]
    /\ pc' = "done"

\* the caller has its answer; the authorizer keeps its map
AuthorizerReturn ==
    /\ pc = "done"
    /\ req' = NoProvider
    /\ res' = NoRes
    /\ calls' = <<>>
    /\ pc' = "idle"
    /\ UNCHANGED env

NextAuthorizer ==
    \/ IsProviderAllowedRequest
    \/ AuthorizerReturn

SpecAuthorizer == InitAuthorizer /\ [][NextAuthorizer]_vars

----------------------------------------------------------------------------
(* Properties of the classifier *)

Shapes == {"Plain", "ShareFolder", "ShareName", "ShareChild"}

\* the predicates of the classifier that hold of a classified path
HoldingPredicates ==
    (IF res.plain THEN {"Plain"} ELSE {})
    \cup (IF res.folder = "true" THEN {"ShareFolder"} ELSE {})
    \cup (IF res.name = "true" THEN {"ShareName"} ELSE {})
    \cup (IF res.child = "true" THEN {"ShareChild"} ELSE {})

\* C1: every path has exactly one of the four shapes: exactly one of the
\* predicates not inSharedFolder, isSharedFolder, isShareName, isShareChild
\* holds of it, and the handlers' chain of tests never ends in "unknown path"
C1_ExactlyOneShape ==
    (pc = "done" /\ req.op = "classify") =>
        /\ res.shape \in Shapes
        /\ Cardinality(HoldingPredicates) = 1

----------------------------------------------------------------------------
(* Properties of the gateway *)

\* the effective path of the served request
ReqPath == getPath(env, req.ref, NoRest)

\* the shape of the served request's effective path
Shape == IF ReqPath.err THEN "none" ELSE classify(ReqPath.path)

Served(ops, shapes) == pc = "done" /\ req.op \in ops /\ Shape \in shapes

ShareNameOf == splitShare(ReqPath.path)[2]
ShareChildOf == splitShare(ReqPath.path)[3]

\* stat(shareName) of the served share-child request
ShareStat == stat(env, PathRef(ShareNameOf), NoRest)

\* stat(shareName) returns an OK REFERENCE whose target resolves to a
\* non-reference resource
ShareResolves ==
    /\ Shape = "ShareChild"
    /\ ~ShareStat.err
    /\ ShareStat.res.code = "OK"
    /\ ShareStat.res.infos[1].type = "REFERENCE"
    /\ checkRef(env, ShareStat.res.infos[1]).outcome = "ok"

\* join(T, shareChild), T the path of the resolved target
RewrittenRef ==
    PathRef(Join(<<checkRef(env, ShareStat.res.infos[1]).info.path, ShareChildOf>>))

LastCall == calls[Len(calls)]

CallsOf(ops) == {i \in 1..Len(calls) : calls[i].to # "registry" /\ calls[i].op \in ops}

OkResponse == res.kind = "response" /\ res.code = "OK"

\* C2: Stat, CreateContainer, Delete and InitiateFileUpload on a share child
\* whose share name resolves to T: the call that reaches the owning provider
\* carries the path join(T, shareChild) and the request's other fields as
\* they came
C2_RewrittenForward ==
    (Served({"Stat", "CreateContainer", "Delete", "InitiateFileUpload"}, {"ShareChild"})
     /\ ShareResolves) =>
        /\ calls # <<>>
        /\ LastCall = ProviderCall(RegistryAnswer(env, RewrittenRef).addr, req.op,
                                   RewrittenRef, req.rest)
        /\ req.op # "Stat" => Cardinality(CallsOf({req.op})) = 1

C2_Witness ==
    /\ Served({"InitiateFileUpload"}, {"ShareChild"})
    /\ ShareResolves
    /\ ShareChildOf = <<SLASH>> \o Seg_b
    /\ LastCall.ref = PathRef(TargetDir)
    /\ OkResponse

\* C3: InitiateFileDownload on a share child that the home provider does not
\* hold, the file being at join(T, shareChild) on the target provider: the
\* download is forwarded there and the gateway returns that provider's result
C3_DownloadForwarded ==
    (Served({"InitiateFileDownload"}, {"ShareChild"})
     /\ ShareResolves
     /\ req.ref.kind = "path"
     /\ Lookup(env, P1, req.ref) = <<>>
     /\ Lookup(env, P2, RewrittenRef) # <<>>
     /\ P2 \notin env.down) =>
        /\ calls # <<>>
        /\ LastCall = ProviderCall(P2, "InitiateFileDownload", RewrittenRef, req.rest)
        /\ res.kind = "response"
        /\ res.code = ProviderInitiate(env, P2, RewrittenRef, TRUE, req.expose, req.url).res.code

\* C4: an OK Stat on a share name returns the request path, with the other
\* fields of the resolved target
C4_StatShareNamePath ==
    (Served({"Stat"}, {"ShareName"}) /\ OkResponse) =>
        /\ res.infos[1].path = ReqPath.path
        /\ res.infos[1].type # "REFERENCE"

\* the provider-side children of the served listing
Listed ==
    ProviderListContainer(env, calls[CHOOSE i \in CallsOf({"ListContainer"}) : TRUE].to,
                          calls[CHOOSE i \in CallsOf({"ListContainer"}) : TRUE].ref).res.infos

\* C5: an OK ListContainer on the share folder, a share name or a share child
\* returns every child under the path join(p, basename of its provider-side
\* path)
C5_ListChildPaths ==
    (Served({"ListContainer"}, {"ShareFolder", "ShareName", "ShareChild"}) /\ OkResponse) =>
        /\ Len(res.infos) = Len(Listed)
        /\ \A i \in 1..Len(res.infos) :
               /\ res.infos[i].path = Join(<<ReqPath.path, Base(Listed[i].path)>>)
               /\ Base(res.infos[i].path) = Base(Listed[i].path)

\* C6: no OK response of Stat or ListContainer holds a resource of type
\* REFERENCE
C6_NoReferenceReturned ==
    (pc = "done" /\ req.op \in {"Stat", "ListContainer"} /\ OkResponse) =>
        \A i \in 1..Len(res.infos) : res.infos[i].type # "REFERENCE"

\* C7: every path in an OK response of Stat or ListContainer on a share name
\* or a share child lies in the share folder
C7_NoTargetPathReturned ==
    (Served({"Stat", "ListContainer"}, {"ShareName", "ShareChild"}) /\ OkResponse) =>
        \A i \in 1..Len(res.infos) : HasPrefix(res.infos[i].path, getSharedFolder)

\* the stats by id that resolve a reference, of a request by path (which
\* makes no other stat by id)
ResolutionStats ==
    {i \in 1..Len(calls) :
        /\ calls[i].to # "registry"
        /\ calls[i].op = "Stat"
        /\ calls[i].ref.kind = "id"}

\* the stat of a resolution answered with a REFERENCE
Chained(i) ==
    /\ ~ProviderStat(env, calls[i].to, calls[i].ref).err
    /\ ProviderStat(env, calls[i].to, calls[i].ref).res.code = "OK"
    /\ ProviderStat(env, calls[i].to, calls[i].ref).res.infos[1].type = "REFERENCE"

\* C8: a reference is resolved with one stat by id; when that stat returns a
\* REFERENCE the operation ends with an internal status and makes no further
\* call
C8_ChainIsInternal ==
    (pc = "done" /\ req.ref.kind = "path") =>
        /\ Shape \in {"ShareName", "ShareChild"} => Cardinality(ResolutionStats) <= 1
        /\ \A i \in ResolutionStats :
               Chained(i) => /\ res.kind = "response"
                             /\ res.code = "INTERNAL"
                             /\ i = Len(calls)

\* C9: CreateContainer, InitiateFileUpload and InitiateFileDownload on the
\* share folder or a share name, and Delete on the share folder, answer
\* permission-denied, and no create, upload, download or delete call reaches
\* a provider
C9_PermissionDenied ==
    (\/ Served({"CreateContainer", "InitiateFileUpload", "InitiateFileDownload"},
               {"ShareFolder", "ShareName"})
     \/ Served({"Delete"}, {"ShareFolder"})) =>
        /\ res.kind = "response"
        /\ res.code = "PERMISSION_DENIED"
        /\ CallsOf({"CreateContainer", "InitiateFileUpload", "InitiateFileDownload",
                    "Delete"}) = {}

\* C10: InitiateFileUpload on a share name answers invalid-argument, with a
\* message that names the share folder and the share name
C10_UploadShareNameInvalidArg ==
    Served({"InitiateFileUpload"}, {"ShareName"}) =>
        /\ res.kind = "response"
        /\ res.code = "INVALID_ARGUMENT"
        /\ res.msg = "path points to share folder or share name"
        /\ calls = getPath(env, req.ref, NoRest).calls

C10_Witness ==
    /\ Served({"InitiateFileUpload"}, {"ShareName"})
    /\ req.ref = PathRef(SharePath("a"))
    /\ res.code = "INVALID_ARGUMENT"

\* the path of the reference of the request being served, on the providers'
\* contents the request was received on
ReceivedPath == getPath(env, req'.ref, NoRest)

\* a step that serves a request of one of the operations on a path of one of
\* the shapes
Serving(ops, shapes) ==
    /\ pc = "idle"
    /\ pc' = "done"
    /\ req'.op \in ops
    /\ ~ReceivedPath.err
    /\ classify(ReceivedPath.path) \in shapes

\* C11: Delete on a share name p is forwarded to the provider owning p with
\* the path p itself: after the calls that obtain p, the gateway asks the
\* registry for p and sends one Delete of p to the provider the registry
\* names; it stats nothing else and no call reaches any other provider
C11_DeleteShareNameForwarded ==
    [][Serving({"Delete"}, {"ShareName"}) =>
        /\ calls' \in {ReceivedPath.calls \o <<RegistryCall(PathRef(ReceivedPath.path))>>,
                       ReceivedPath.calls \o
                           <<RegistryCall(PathRef(ReceivedPath.path)),
                             ProviderCall(RegistryAnswer(env, PathRef(ReceivedPath.path)).addr,
                                          "Delete", PathRef(ReceivedPath.path), req'.rest)>>}
        /\ (env.registry = "OK") = (calls'[Len(calls')].op = "Delete")
        /\ \A i \in 1..Len(calls') : calls'[i].to \in {"registry", P1}
        /\ \A i \in 1..Len(calls') :
              calls'[i].op = "Stat" => i = 2 /\ calls'[i].ref = req'.ref]_vars

\* a share name that resolves has been deleted: the reference is gone and
\* the one provider call was the Delete of the share name
C11_Witness ==
    /\ pc = "done"
    /\ req.op = "Delete"
    /\ req.ref = PathRef(SharePath("a"))
    /\ OkResponse
    /\ env.mounts["a"] = MountNone
    /\ env.mounts["b"] = MountOk
    /\ Len(calls) = 2
    /\ calls[2] = ProviderCall(P1, "Delete", PathRef(SharePath("a")), req.rest)

\* the path of the destination of the Move being served
ReceivedDestination == getPath(env, req'.dst, NoRest)

\* a step that serves a Move from a path of one of the shapes in from to a
\* path of one of the shapes in to
Moving(from, to) ==
    /\ Serving({"Move"}, from)
    /\ ~ReceivedDestination.err
    /\ classify(ReceivedDestination.path) \in to

\* the share names and share children of the Move being served
MoveSourceShare == splitShare(ReceivedPath.path)
MoveDestinationShare == splitShare(ReceivedDestination.path)

\* stat(shareName) of the Move being served, and the resolution of the
\* reference it returns
MoveStat == stat(env, PathRef(MoveSourceShare[2]), NoRest)
MoveTarget == checkRef(env, MoveStat.res.infos[1])

MoveResolves ==
    /\ ~MoveStat.err
    /\ MoveStat.res.code = "OK"
    /\ MoveStat.res.infos[1].type = "REFERENCE"
    /\ MoveTarget.outcome = "ok"

\* join(T, child) for a share child of the Move being served
MoveRewritten(child) == PathRef(Join(<<MoveTarget.info.path, child>>))

\* C12: a Move between two share children of one share name that resolves to
\* T stats the share name once and the reference's target once (by id), and
\* then forwards one Move from join(T, srcChild) to join(T, dstChild); a Move
\* between share children of two share names is answered with a status and
\* nothing is forwarded
C12_MoveShareChildren ==
    [][Moving({"ShareChild"}, {"ShareChild"}) =>
        IF MoveSourceShare[2] # MoveDestinationShare[2]
        THEN /\ res'.kind = "response"
             /\ res'.code = "INTERNAL"
             /\ calls' = ReceivedPath.calls \o ReceivedDestination.calls
        ELSE MoveResolves =>
             /\ calls' = ReceivedPath.calls \o ReceivedDestination.calls
                          \o MoveStat.calls \o MoveTarget.calls
                          \o <<RegistryCall(MoveRewritten(MoveSourceShare[3])),
                               RegistryCall(MoveRewritten(MoveDestinationShare[3])),
                               MoveCall(RegistryAnswer(env, PathRef(MoveTarget.info.path)).addr,
                                        MoveRewritten(MoveSourceShare[3]),
                                        MoveRewritten(MoveDestinationShare[3]), req'.rest)>>
             /\ Cardinality({i \in 1..Len(calls') : calls'[i].op = "Move"}) = 1
             /\ Cardinality({i \in 1..Len(calls') :
                                /\ calls'[i].to # "registry"
                                /\ calls'[i].op = "Stat"
                                /\ calls'[i].ref = PathRef(MoveSourceShare[2])}) = 1
             /\ Cardinality({i \in 1..Len(calls') :
                                /\ calls'[i].to # "registry"
                                /\ calls'[i].op = "Stat"
                                /\ calls'[i].ref.kind = "id"}) = 1]_vars

\* a Move inside the share a has reached the provider of the target
C12_Witness ==
    /\ pc = "done"
    /\ req.op = "Move"
    /\ req.ref = PathRef(SharePath("a") \o <<SLASH>> \o Seg_a)
    /\ req.dst = PathRef(SharePath("a") \o <<SLASH>> \o Seg_b)
    /\ env.mounts["a"] = MountOk
    /\ res.kind = "response"
    /\ calls[Len(calls)] = MoveCall(P2, PathRef(TargetPath \o <<SLASH>> \o Seg_a),
                                    PathRef(TargetDir), req.rest)

\* the pairs of shapes Move serves
MovePairs == {<<"Plain", "Plain">>, <<"ShareName", "ShareName">>, <<"ShareChild", "ShareChild">>}

\* C13: a Move whose source and destination shapes are any other pair (one
\* side plain and the other inside the share folder, either side the share
\* folder, ...) is answered with a response of status internal: the request
\* neither aborts nor forwards a Move
C13_MoveMixedShapesRejected ==
    [][(/\ Moving(Shapes, Shapes)
        /\ <<classify(ReceivedPath.path), classify(ReceivedDestination.path)>> \notin MovePairs) =>
        /\ res'.kind = "response"
        /\ res'.code = "INTERNAL"
        /\ \A i \in 1..Len(calls') : calls'[i].op # "Move"]_vars

\* the registry's answers for the two sides of a Move
Assigned(src, dst) ==
    /\ RegistryAnswer(env, src).code = "OK"
    /\ RegistryAnswer(env, dst).code = "OK"

\* the served Move ended in routing: its last two calls are the registry
\* lookups of the two sides, both answered
RoutedApart ==
    /\ Len(calls) >= 2
    /\ calls[Len(calls) - 1].to = "registry"
    /\ calls[Len(calls)].to = "registry"
    /\ Assigned(calls[Len(calls) - 1].ref, calls[Len(calls)].ref)

\* C14: a Move the registry assigns to two providers of different addresses
\* is answered unimplemented and no provider receives a Move; a Move reaches
\* a provider only after the registry has named that provider for both sides
C14_MoveAcrossProviders ==
    (pc = "done" /\ req.op = "Move") =>
        /\ RoutedApart =>
              /\ RegistryAnswer(env, calls[Len(calls) - 1].ref).addr
                     # RegistryAnswer(env, calls[Len(calls)].ref).addr
              /\ res.kind = "response"
              /\ res.code = "UNIMPLEMENTED"
        /\ (res.kind = "response" /\ res.code = "UNIMPLEMENTED") => RoutedApart
        /\ \A i \in 1..Len(calls) : calls[i].op = "Move" =>
              /\ i = Len(calls)
              /\ i >= 3
              /\ calls[i - 2] = RegistryCall(calls[i].ref)
              /\ calls[i - 1] = RegistryCall(calls[i].dst)
              /\ Assigned(calls[i].ref, calls[i].dst)
              /\ RegistryAnswer(env, calls[i].ref).addr = calls[i].to
              /\ RegistryAnswer(env, calls[i].dst).addr = calls[i].to

\* a Move from the home provider to the target's provider has been refused
C14_Witness ==
    /\ pc = "done"
    /\ req.op = "Move"
    /\ req.ref = PathRef(getHome \o <<SLASH>> \o Seg_b)
    /\ req.dst = PathRef(TargetDir)
    /\ res.code = "UNIMPLEMENTED"
    /\ calls = <<RegistryCall(req.ref), RegistryCall(req.dst)>>

\* the answer of the provider the served upload or download was forwarded to
TransferAnswer ==
    ProviderInitiate(env, LastCall.to, LastCall.ref, req.op = "InitiateFileDownload",
                     req.expose, req.url)

\* the served upload or download was forwarded and the provider's answer was
\* handed off: any answer to a download, an OK answer to an upload
HandedOff ==
    /\ pc = "done"
    /\ req.op \in {"InitiateFileUpload", "InitiateFileDownload"}
    /\ calls # <<>>
    /\ LastCall.op = req.op
    /\ ~TransferAnswer.err
    /\ req.op = "InitiateFileUpload" => TransferAnswer.res.code = "OK"

TransportFailed ==
    /\ pc = "done"
    /\ calls # <<>>
    /\ LastCall.to \in env.down

\* C16: every operation answers a downstream call that fails at the
\* transport layer with a response of status internal, never with a bare
\* error and no response
C16_TransportErrorIsInternal ==
    TransportFailed => res.kind = "response" /\ res.code = "INTERNAL"

\* the answer of the provider to the call c of the request r, on the
\* providers' contents the request was received on
DownstreamAnswer(c, r) ==
    IF c.op = "Stat" THEN ProviderStat(env, c.to, c.ref)
    ELSE IF c.op = "ListContainer" THEN ProviderListContainer(env, c.to, c.ref)
    ELSE IF c.op = "CreateContainer" THEN ProviderCreateContainer(env, c.to, c.ref)
    ELSE IF c.op = "Delete" THEN ProviderDelete(env, c.to, c.ref)
    ELSE IF c.op = "Move" THEN ProviderMove(env, c.to, c.ref, c.dst)
    ELSE ProviderInitiate(env, c.to, c.ref, c.op = "InitiateFileDownload", r.expose, r.url)

\* a step that serves a request whose last downstream call is a provider's
\* and is answered with a status other than OK
AnsweredNotOk ==
    /\ pc = "idle"
    /\ pc' = "done"
    /\ calls' # <<>>
    /\ calls'[Len(calls')].to # "registry"
    /\ ~DownstreamAnswer(calls'[Len(calls')], req').err
    /\ DownstreamAnswer(calls'[Len(calls')], req').res.code # "OK"

\* C17: a downstream answer of not-found, to the forwarded call or to a stat
\* on the way, ends the request with status not-found, and any other answer
\* that is not OK ends it with status internal
C17_DownstreamStatusMapped ==
    [][AnsweredNotOk =>
        /\ res'.kind = "response"
        /\ res'.code = IF DownstreamAnswer(calls'[Len(calls')], req').res.code = "NOT_FOUND"
                       THEN "NOT_FOUND" ELSE "INTERNAL"]_vars

\* the served request ended on a registry lookup that named no provider
RegistryFailed ==
    /\ pc = "done"
    /\ calls # <<>>
    /\ LastCall.to = "registry"
    /\ RegistryAnswer(env, LastCall.ref).code # "OK"

\* C18: when the registry does not find a provider for a reference, by path
\* or by id, the request ends with status not-found; when the registry fails
\* otherwise, with status internal; no provider is called for that reference
C18_RegistryFailureMapped ==
    RegistryFailed =>
        /\ res.kind = "response"
        /\ res.code = IF RegistryAnswer(env, LastCall.ref).code = "NOT_FOUND"
                      THEN "NOT_FOUND" ELSE "INTERNAL"
        /\ \A i \in 1..Len(calls) : calls[i].to # "registry" => calls[i].ref # LastCall.ref

\* the share name the served request has to resolve: the path itself when it
\* is a share name, the share name of a share child
ResolvedName == IF Shape = "ShareName" THEN ReqPath.path ELSE ShareNameOf

\* stat(shareName) of the served request
ResolvedNameStat == stat(env, PathRef(ResolvedName), NoRest)

\* the served request is one that resolves a share name: Stat and
\* ListContainer on a share name, and Stat, ListContainer, CreateContainer,
\* Delete, InitiateFileUpload and Move on share children
MustResolve ==
    \/ Served({"Stat", "ListContainer"}, {"ShareName", "ShareChild"})
    \/ Served({"CreateContainer", "Delete", "InitiateFileUpload"}, {"ShareChild"})
    \/ /\ Served({"Move"}, {"ShareChild"})
       /\ ~getPath(env, req.dst, NoRest).err
       /\ classify(getPath(env, req.dst, NoRest).path) = "ShareChild"
       /\ splitShare(getPath(env, req.dst, NoRest).path)[2] = ShareNameOf

\* C19: when the stat of the share name a request has to resolve returns OK
\* with a resource that is not a reference, the request ends with a response
\* of status internal: it does not abort, and the stat of the share name is
\* the last call it makes
C19_NonReferenceIsInternal ==
    (/\ MustResolve
     /\ ~ResolvedNameStat.err
     /\ ResolvedNameStat.res.code = "OK"
     /\ ResolvedNameStat.res.infos[1].type # "REFERENCE") =>
        /\ res.kind = "response"
        /\ res.code = "INTERNAL"
        /\ LastCall.op = "Stat"
        /\ LastCall.ref = PathRef(ResolvedName)

\* the share folder has been listed, every child is a reference, and one of
\* them does not resolve
ChildUnresolved ==
    /\ Served({"ListContainer"}, {"ShareFolder"})
    /\ CallsOf({"ListContainer"}) # {}
    /\ ~listContainer(env, req.ref, req.rest).err
    /\ listContainer(env, req.ref, req.rest).res.code = "OK"
    /\ \A i \in 1..Len(Listed) : Listed[i].type = "REFERENCE"
    /\ \E i \in 1..Len(Listed) : checkRef(env, Listed[i]).outcome = "err"

\* C20: ListContainer on the share folder, when the reference of one listed
\* child does not resolve, answers a response of status internal: it neither
\* aborts nor returns a part of the listing
C20_ListUnresolvedChild ==
    ChildUnresolved =>
        /\ res.kind = "response"
        /\ res.code = "INTERNAL"
        /\ res.infos = <<>>

\* p is outside /home/<ShareFolder>/...: it is neither the share folder nor
\* below it
OutsideShareFolder(p) ==
    /\ p # getSharedFolder
    /\ ~HasPrefix(p, getSharedFolder \o <<SLASH>>)

\* a step that serves one of the operations on a path reference outside the
\* share folder for which the registry names a provider
ServingOutside(ops) ==
    /\ pc = "idle"
    /\ pc' = "done"
    /\ req'.op \in ops
    /\ req'.ref.kind = "path"
    /\ OutsideShareFolder(req'.ref.path)
    /\ RegistryAnswer(env, req'.ref).code = "OK"

\* C21: Stat, ListContainer, CreateContainer, Delete and InitiateFileUpload
\* on a path outside the share folder, a path such as /home/MyShares2
\* included, make one registry lookup and one provider call, which carries
\* the request's reference and other fields as they came; no share name is
\* stat-ed, and the provider's response is returned as it is (for
\* InitiateFileUpload after the hand-off)
C21_OutsideIsPlain ==
    [][ServingOutside({"Stat", "ListContainer", "CreateContainer", "Delete",
                       "InitiateFileUpload"}) =>
        /\ calls' = <<RegistryCall(req'.ref),
                      ProviderCall(RegistryAnswer(env, req'.ref).addr, req'.op, req'.ref,
                                   req'.rest)>>
        /\ (/\ ~DownstreamAnswer(calls'[2], req').err
            /\ req'.op # "InitiateFileUpload") =>
               res' = DownstreamAnswer(calls'[2], req').res]_vars

\* a path has been classified as a share child
ClassifiedShareChild ==
    /\ pc = "done"
    /\ res.kind = "classification"
    /\ res.shape = "ShareChild"

\* name is one non-empty path segment other than "." and ".."
IsName(name) ==
    /\ name # <<>>
    /\ name \notin {DOT, DOTDOT}
    /\ \A i \in 1..Len(name) : name[i] # SLASH

\* C22: for every path p classified as a share child, splitShare(p) returns
\* a share name of the form /home/<ShareFolder>/<name> with a non-empty
\* name, and join(shareName, shareChild) is the normalized p
C22_SplitShareJoins ==
    ClassifiedShareChild =>
        /\ res.share[1] = "ok"
        /\ HasPrefix(res.share[2], getSharedFolder \o <<SLASH>>)
        /\ IsName(SubSeq(res.share[2], Len(getSharedFolder) + 2, Len(res.share[2])))
        /\ Join(<<res.share[2], res.share[3]>>) = Clean(req.path)

\* a target of the form cs3:<storage_id>/<opaque_id> with both parts
\* non-empty
WellFormedTarget(t) ==
    /\ HasPrefix(t, <<"c", "s", "3", ":">>)
    /\ Index(SubSeq(t, 5, Len(t)), SLASH) > 1
    /\ Index(SubSeq(t, 5, Len(t)), SLASH) < Len(t) - 4

\* the served request resolves a share name whose stat returns a reference
\* with a target that is not well-formed
MalformedTarget ==
    /\ MustResolve
    /\ ~ResolvedNameStat.err
    /\ ResolvedNameStat.res.code = "OK"
    /\ ResolvedNameStat.res.infos[1].type = "REFERENCE"
    /\ ~WellFormedTarget(ResolvedNameStat.res.infos[1].target)

\* C23: resolving a reference whose target is empty, has another scheme than
\* cs3, or has an opaque part that is not <storage_id>/<opaque_id> with both
\* parts non-empty, fails with an error and stats no target: the request
\* ends with a status that is not OK and its only calls are those for its
\* own reference and for the share name
C23_MalformedTargetFails ==
    MalformedTarget =>
        /\ res.kind = "response"
        /\ res.code # "OK"
        /\ \A i \in 1..Len(calls) : calls[i].ref \in {req.ref, PathRef(ResolvedName)}

\* C24: SetArbitraryMetadata, UnsetArbitraryMetadata, ListFileVersions,
\* RestoreFileVersion, ListRecycle, RestoreRecycleItem and PurgeRecycle, on
\* any reference, paths inside the share folder included, make one registry
\* lookup of the request's reference and, when the registry names a
\* provider, one call to that provider; they stat nothing, resolve nothing
\* and send no other path than the request's
C24_RoutedByReference ==
    (pc = "done" /\ req.op \in RoutedOps) =>
        /\ calls # <<>>
        /\ calls[1] = RegistryCall(req.ref)
        /\ Len(calls) = IF RegistryAnswer(env, req.ref).code = "OK" THEN 2 ELSE 1
        /\ \A i \in 2..Len(calls) :
              /\ calls[i].to = RegistryAnswer(env, req.ref).addr
              /\ calls[i].op = req.op
              /\ calls[i].ref \in {req.ref, NoRef}
              /\ calls[i].rest = req.rest

\* metadata has been set on a share child: the call went to the home
\* provider with the path as it came
C24_Witness ==
    /\ pc = "done"
    /\ req.op = "SetArbitraryMetadata"
    /\ req.ref = PathRef(SharePath("a") \o <<SLASH>> \o Seg_a)
    /\ env.mounts["a"] = MountOk
    /\ calls = <<RegistryCall(req.ref), ProviderCall(P1, req.op, req.ref, req.rest)>>
    /\ res.kind = "response"

----------------------------------------------------------------------------
(* Properties of the transfer signer *)

\* C25: every token the signer mints, whatever transfer_expires is
\* configured (zero and negative values too), has an expires-at strictly
\* greater than its issued-at
C25_ExpiresAfterIssued ==
    calls # <<>> => calls[1].claims.exp > calls[1].claims.iat

\* C26: the token of sign(target), verified under the secret it was signed
\* with at a time not after its exp, yields the claims (target, aud = reva,
\* iat, exp) it was minted with; verified after its exp, or under another
\* secret, it does not verify
C26_SignVerify ==
    pc = "verified" =>
        IF req.key = env.TransferSharedSecret /\ req.at <= calls[1].claims.exp
        THEN /\ res.kind = "claims"
             /\ res.target = req.target
             /\ res.aud = "reva"
             /\ res.exp - res.iat <= env.TransferExpires
             /\ res.exp - res.iat >= env.TransferExpires - MaxLapse
             /\ res.iat <= req.at
        ELSE res = Invalid

C26_Witness ==
    /\ pc = "verified"
    /\ req.key = env.TransferSharedSecret
    /\ env.TransferExpires = 2
    /\ req.at = calls[1].claims.exp
    /\ res.kind = "claims"
    /\ res.target = req.target

----------------------------------------------------------------------------
(* Properties of the invite managers *)

\* the calls that are changing the model or rewriting the file
Mutating == {p \in Procs : pc[p] \in {"store", "accept", "save"}}

\* C27: in the file-backed invite manager, in every interleaving, at most
\* one call of GenerateToken or AcceptInvite is changing the in-memory
\* model or rewriting the JSON file at any time
C27_OneMutator ==
    /\ Cardinality(Mutating) <= 1
    /\ \A p \in Mutating : env.mutex = p

C27_Witness ==
    /\ pc[1] = "save"
    /\ req[1].op = "AcceptInvite"
    /\ pc[2] = "lock"
    /\ req[2].op = "GenerateToken"
    /\ env.mutex = 1

\* C28: in the in-memory invite manager, in every interleaving of
\* AcceptInvite calls on tokens of one inviter, every remote user whose
\* AcceptInvite returned success is from then on in that inviter's list of
\* accepted users and is what GetRemoteUser returns for it
C28_AcceptedStay ==
    \A a \in calls :
        /\ Accepted(env.AcceptedUsers[a[1]], a[2])
        /\ GetRemoteUser(env, a[1], a[2]) = a[2]

----------------------------------------------------------------------------
(* Properties of the provider authorizer *)

\* the addresses a host resolves to
ResolvedSet(e, host) == {LookupIP(e, host)[i] : i \in 1..Len(LookupIP(e, host))}

\* IsProviderAllowed is asked, with hostname verification on, about a
\* provider of the allow-list whose OCM host resolves
VerifyingHost ==
    /\ pc = "idle"
    /\ pc' = "done"
    /\ env.VerifyRequestHostname
    /\ req'.Domain \in env.providers
    /\ getOCMHost(req'.Services) # ""
    /\ ResolvedSet(env, getOCMHost(req'.Services)) # {}

\* C29: with verify_request_hostname on, IsProviderAllowed for a provider of
\* the allow-list returns success when the claimed address is one of those
\* its OCM host resolves to and an error when it is not, and a host resolved
\* by an earlier call is not looked up again; from a freshly constructed
\* authorizer on
C29_VerifiedByHostname ==
    [][VerifyingHost =>
          /\ res' = IF req'.Services[1].Host \in ResolvedSet(env, getOCMHost(req'.Services))
                    THEN AuthNil ELSE AuthError("OCM Host")
          /\ getOCMHost(req'.Services) \in env.providerIPs.has => calls' = <<>>
          /\ getOCMHost(req'.Services) \in env'.providerIPs.has]_vars

----------------------------------------------------------------------------
(* The order of the calls of a request on a share child *)

ShareAwareOps ==
    {"Stat", "ListContainer", "CreateContainer", "Delete", "InitiateFileUpload",
     "InitiateFileDownload", "Move"}

\* a step that serves a share-aware operation whose reference is the path of
\* a share child
ServingShareChild ==
    /\ Serving(ShareAwareOps, {"ShareChild"})
    /\ req'.ref.kind = "path"
    /\ req'.op = "Move" => req'.dst.kind = "path"

\* the calls of the served request that reach a provider, in their order
DownstreamCalls == SelectSeq(calls', LAMBDA c : c.to # "registry")

\* the resource a provider returned OK for the stat c, <<>> if it did not
StatOk(c) ==
    IF DownstreamAnswer(c, req').err THEN <<>>
    ELSE IF DownstreamAnswer(c, req').res.code # "OK" THEN <<>>
    ELSE DownstreamAnswer(c, req').res.infos

\* C30: a share-aware operation on a share child calls the providers in this
\* order: the stat of the share name, the stat by id of the reference's
\* target, the forwarded call; the forwarded call is made only after the
\* first stat returned OK with a reference and the second OK with a resource
\* that is none, and when a step fails nothing is forwarded
C30_ShareChildCallOrder ==
    [][ServingShareChild =>
          /\ Len(DownstreamCalls) <= 3
          /\ Len(DownstreamCalls) >= 1 =>
                /\ DownstreamCalls[1].op = "Stat"
                /\ DownstreamCalls[1].ref = PathRef(splitShare(req'.ref.path)[2])
          /\ Len(DownstreamCalls) >= 2 =>
                /\ StatOk(DownstreamCalls[1]) # <<>>
                /\ StatOk(DownstreamCalls[1])[1].type = "REFERENCE"
                /\ DownstreamCalls[2].op = "Stat"
                /\ DownstreamCalls[2].ref.kind = "id"
          /\ Len(DownstreamCalls) = 3 =>
                /\ StatOk(DownstreamCalls[2]) # <<>>
                /\ StatOk(DownstreamCalls[2])[1].type # "REFERENCE"
                /\ DownstreamCalls[3].op = req'.op
                /\ DownstreamCalls[3].ref.kind = "path"]_vars

----------------------------------------------------------------------------
(* The number of calls of a request *)

SinglePathOps == ShareAwareOps \ {"Move"}

\* the calls of the served request that reach a provider
ProviderCalls == {i \in 1..Len(calls) : calls[i].to # "registry"}

\* the stats by id made before the call the request is forwarded with
StatsByIdBefore ==
    {i \in ProviderCalls :
        /\ calls[i].op = "Stat"
        /\ calls[i].ref.kind = "id"
        /\ \A j \in ProviderCalls : (j < i /\ req.op # "Stat") => calls[j].op # req.op}

\* the share name of the served path: the path itself, or its first part
ServedShareName == IF Shape = "ShareChild" THEN ShareNameOf ELSE ReqPath.path

\* the stats of the share name of the served path
StatsOfShareName ==
    {i \in ProviderCalls : calls[i].op = "Stat" /\ calls[i].ref = PathRef(ServedShareName)}

----------------------------------------------------------------------------
(* ListContainer on a share name *)

\* the target the share name of the served request resolves to
ResolvedNameTarget == checkRef(env, ResolvedNameStat.res.infos[1])

\* the served request is a ListContainer on a share name that resolves
ListsResolvedName ==
    /\ Served({"ListContainer"}, {"ShareName"})
    /\ ~ResolvedNameStat.err
    /\ ResolvedNameStat.res.code = "OK"
    /\ ResolvedNameStat.res.infos[1].type = "REFERENCE"
    /\ ResolvedNameTarget.outcome = "ok"

\* C32: ListContainer on a share name whose resolved target is not a
\* container returns invalid-argument and sends no list call to any
\* provider; when the target is a container, one list call is sent, with
\* the path of the resolved target
C32_ListShareNameContainer ==
    ListsResolvedName =>
        IF ResolvedNameTarget.info.type # "CONTAINER"
        THEN /\ res.kind = "response"
             /\ res.code = "INVALID_ARGUMENT"
             /\ CallsOf({"ListContainer"}) = {}
        ELSE /\ Cardinality(CallsOf({"ListContainer"})) = 1
             /\ LastCall = ProviderCall(RegistryAnswer(env, PathRef(ResolvedNameTarget.info.path)).addr,
                                        "ListContainer",
                                        PathRef(ResolvedNameTarget.info.path), KeysOf(req.rest))

C32_Witness ==
    /\ ListsResolvedName
    /\ req.ref = PathRef(SharePath("a"))
    /\ env.mounts["a"] = MountFile
    /\ ResolvedNameTarget.info.type = "FILE"
    /\ res.code = "INVALID_ARGUMENT"

----------------------------------------------------------------------------
(* The transfer token and the provider's status *)

\* C33: InitiateFileUpload and InitiateFileDownload attach a transfer token
\* and put the data gateway's endpoint in place of the provider's only when
\* the provider answered OK: a response to a provider's answer that is not
\* OK carries no token
C33_TokenOnlyWhenOk ==
    (/\ pc = "done"
     /\ req.op \in {"InitiateFileUpload", "InitiateFileDownload"}
     /\ res.kind = "response"
     /\ (res.token # NoToken \/ res.endpoint = DataGatewayEndpoint)) =>
        /\ calls # <<>>
        /\ LastCall.op = req.op
        /\ ~TransferAnswer.err
        /\ TransferAnswer.res.code = "OK"

----------------------------------------------------------------------------
(* The paths a request through a share reaches *)

\* p is the path t or lies below it
Under(t, p) == Clean(p) = t \/ HasPrefix(Clean(p), t \o <<SLASH>>)

\* the calls of the served request that carry a path other than the share
\* name's and the request's own
ForwardedCalls(shareName) ==
    {i \in 1..Len(calls') :
        /\ calls'[i].to # "registry"
        /\ calls'[i].ref.kind = "path"
        /\ calls'[i].ref # PathRef(shareName)
        /\ calls'[i].ref # req'.ref}

\* the calls forwarded for the served request name paths under t only
ForwardedUnder(t, forwarded) ==
    \A i \in forwarded :
        /\ Under(t, calls'[i].ref.path)
        /\ calls'[i].op = "Move" =>
              /\ calls'[i].dst.kind = "path"
              /\ Under(t, calls'[i].dst.path)

\* C34: for every share child p, remainders with ".." segments included,
\* the path a provider is called with after the rewriting is the path T of
\* the resolved target or lies below T: no request through a share reaches
\* a path outside the subtree of the share's target
C34_RewrittenUnderTarget ==
    [][(ServingShareChild /\ ForwardedCalls(splitShare(req'.ref.path)[2]) # {}) =>
          /\ MoveResolves
          /\ ForwardedUnder(MoveTarget.info.path,
                            ForwardedCalls(splitShare(req'.ref.path)[2]))]_vars

C34_Witness ==
    /\ pc = "done"
    /\ req.op = "CreateContainer"
    /\ req.ref = PathRef(SharePath("a") \o <<SLASH>> \o DOTDOT)
    /\ classify(req.ref.path) = "ShareChild"
    /\ LastCall.op = "CreateContainer"
    /\ LastCall.to = P2
    /\ LastCall.ref = PathRef(TargetPath)

\* C35: in the file-backed manager GetRemoteUser never reads the accepted
\* users while a concurrent AcceptInvite holds the mutex to modify them
ReadsRemoteUser(p) == pc[p] = "idle" /\ req'[p].op = "GetRemoteUser"
C35_ReadUnderMutex ==
    [][\A p \in Procs : ReadsRemoteUser(p) =>
          \A q \in Procs \ {p} : ~(pc[q] = "accept" /\ env.mutex = q)]_vars

\* no list of accepted users holds a user twice
NoDuplicates(e) ==
    \A u \in Inviters :
        \A i, j \in 1..Len(e.AcceptedUsers[u]) :
            e.AcceptedUsers[u][i] = e.AcceptedUsers[u][j] => i = j

\* the in-memory AcceptInvite of p returns nil
memoryAccepts(p) == pc[p] = "store" /\ pc'[p] = "done"

\* C36: after any interleaving of AcceptInvite calls no inviter's list holds
\* the same remote user twice, and an AcceptInvite for a remote user who is
\* already in the inviter's list does not succeed and leaves the list as it is
C36_AcceptedOnce ==
    [][/\ NoDuplicates(env')
       /\ \A p \in Procs :
             memoryAccepts(p) =>
                 ~Accepted(env.AcceptedUsers[res[p].inviter], req[p].remote)]_vars

\* the step in which the AcceptInvite of p looks its token up, and the token
jsonChecks(p) == pc[p] = "accept" /\ pc'[p] \in {"unlock", "save"}
memoryChecks(p) ==
    pc[p] = "idle" /\ pc'[p] \in {"done", "load"} /\ req'[p].op = "AcceptInvite"
Checks(p) == IF FileBacked THEN jsonChecks(p) ELSE memoryChecks(p)
Presented(p) == IF FileBacked THEN req[p].token ELSE req'[p].token

\* the answer the call of p has after the step
Message(p) == IF FileBacked THEN res'[p] ELSE res'[p].msg

\* the call of p is over with that step
Over(p) == pc'[p] = (IF FileBacked THEN "unlock" ELSE "done")

\* the AcceptInvite of p has passed the lookup of its token
Passed(p) ==
    /\ req[p].op = "AcceptInvite"
    /\ env.Invites[req[p].token] # ""
    /\ IF FileBacked THEN jsonChecks(p) /\ getTokenIfValid(env, req[p].token) = ""
       ELSE pc[p] = "store" /\ res[p].inviter = env.Invites[req[p].token]

\* C37: in both managers AcceptInvite with a token that GenerateToken never
\* stored or that has expired returns the error and changes nothing; the
\* accepted users change only by an AcceptInvite whose token was stored and
\* passed the lookup, and only by the remote user joining the list of the
\* token's inviter; no AcceptInvite removes or expires a token
C37_ValidTokenOnly ==
    [][/\ \A p \in Procs :
             (Checks(p) /\ getTokenIfValid(env, Presented(p)) # "") =>
                 /\ Message(p) = getTokenIfValid(env, Presented(p))
                 /\ Over(p)
                 /\ env' = env
       /\ \A p \in Procs :
             (~FileBacked /\ pc'[p] \in {"load", "store"}) =>
                 /\ getTokenIfValid([env EXCEPT !.Expired = {}], req'[p].token) = ""
                 /\ pc[p] = "idle" => getTokenIfValid(env, req'[p].token) = ""
       /\ env'.AcceptedUsers # env.AcceptedUsers =>
             \E p \in Procs :
                 /\ Passed(p)
                 /\ Accepted(env'.AcceptedUsers[env.Invites[req[p].token]], req[p].remote)
                 /\ \A u \in Inviters \ {env.Invites[req[p].token]} :
                       env'.AcceptedUsers[u] = env.AcceptedUsers[u]
       /\ \A p \in Procs :
             (req[p].op = "AcceptInvite" /\ pc'[p] # pc[p]) =>
                 env'.Invites = env.Invites /\ env'.Expired = env.Expired]_vars

\* one token, two remote users accepted with it, in either manager
AcceptedTwice(e) ==
    /\ e.Invites = [t \in Tokens |-> IF t = "t1" THEN "u1" ELSE ""]
    /\ e.AcceptedUsers["u1"] = <<"r1", "r2">>

C37_Witness ==
    /\ AcceptedTwice(env)
    /\ \A p \in Procs : pc[p] = "idle"
    /\ FileBacked
    /\ env.File = Saved(env)

C37_WitnessMemory ==
    /\ AcceptedTwice(env)
    /\ ~FileBacked
    /\ calls = {<<"u1", "r1">>, <<"u1", "r2">>}

\* C38: in the file-backed manager, when GenerateToken or AcceptInvite is
\* about to return an error, the tokens and accepted users of the in-memory
\* model are those of the last operation that returned success, which are
\* the ones in the file
C38_ErrorLeavesModel ==
    \A p \in Procs :
        (pc[p] = "unlock" /\ res[p] # "ok") => Saved(env) = env.File

\* C39: GetRemoteUser gives an inviter a remote user only if an AcceptInvite
\* for that user with a token of that inviter has returned success, and a
\* not-found error otherwise; in the file-backed manager an AcceptInvite that
\* returned success has written the user into the inviter's list in the file
C39_OnlyAcceptedUsers ==
    \A p \in Procs :
        (pc[p] = "return" /\ req[p].op = "GetRemoteUser" /\ res[p] # "not found") =>
            /\ res[p] = req[p].remote
            /\ Accepted(env.File.accepted_users[req[p].user], req[p].remote)

\* C40: IsProviderAllowed returns nil only for a provider whose domain is
\* the domain of a provider of the configured list
C40_AllowListedOnly ==
    (pc = "done" /\ res = AuthNil) => req.Domain \in env.providers

====
